---- MODULE Spec2Model ----
(***************************************************************************)
(* A model of the whole-program analyser of phc                            *)
(* (src/optimize/wpa/Whole_program.cpp): the outer convergence loop of     *)
(* run(), the edge worklist of analyse_function, the forward/backward      *)
(* binder and the symbolic-memory layer (get_named_indices, kill_value and *)
(* the assign_* primitives).  The concrete analyses (Aliasing, CCP,        *)
(* Type_inference, Def_use, Callgraph, Debug_WPA) are not part of that     *)
(* file; their per-block state is modelled here as one record whose        *)
(* fields are owned by the analysis that keeps them.                       *)
(***************************************************************************)
EXTENDS Integers, Sequences, FiniteSets, TLC

VARIABLES
    prog,          \* name of the PHP script being optimised (fixed by Init)
    pc,            \* position of run(): "init","analyse","optimise","done","failed"
    w,             \* loop counter of run()'s outer loop
    stack,         \* activation records of analyse_function, innermost last
    exec,          \* Edge::is_executable, per edge of every CFG
    ins,           \* working (IN) state of every analysis, per block
    outs,          \* aggregated OUT state of every analysis, per block
    chg,           \* per block: did the last aggregate_results change OUT
    callgraph,     \* methods reached in this outer iteration, in call order
    old_analyses,  \* Whole_program::old_analyses (snapshots)
    gen,           \* tag of the current version of the CFGs
    agen,          \* tag of the version the registered analyses ran on (-1: none)
    opt,           \* position inside the per-method optimisation loop
    output,        \* methods summarised, methods whose body was replaced, strip flag
    trace,         \* analysis-protocol calls made by the last step
    last,          \* summary of the last worklist step
    fail,          \* "" or the failure that aborted run()
    debug          \* the pass names the pass manager enables debugging for

vars == <<prog, pc, w, stack, exec, ins, outs, chg, callgraph, old_analyses,
          gen, agen, opt, output, trace, last, fail, debug>>

----------------------------------------------------------------------------
(* Bounds of the model *)

\* most nested analyse_function activations the model follows
MaxDepth == 4

(* Program constants *)

\* for (int w = 0; w < 10; w++)
MaxOuter == 10

\* for (int i = 0; i < 10; i++)
MaxInner == 10

\* the pass after which run () gives up: if (w == 9) phc_TODO ();
LastPass == 9

----------------------------------------------------------------------------
(* Generic helpers *)

\* left fold; the accumulator is evaluated before the next element is taken
RECURSIVE FoldFrom(_, _, _, _)
FoldFrom(op(_, _), acc, seq, i) ==
    IF i > Len(seq) THEN acc
    ELSE LET next == op(acc, seq[i])
         IN  IF DOMAIN next = {} THEN FoldFrom(op, next, seq, i + 1)
             ELSE FoldFrom(op, next, seq, i + 1)

FoldSeq(op(_, _), base, seq) == FoldFrom(op, base, seq, 1)

RECURSIVE SetToSeq(_)
SetToSeq(S) ==
    IF S = {} THEN <<>>
    ELSE LET x == CHOOSE y \in S : TRUE IN <<x>> \o SetToSeq(S \ {x})

Range(seq) == {seq[i] : i \in 1..Len(seq)}

\* append x unless already present (insertion into a duplicate-free list)
AddUnique(seq, x) == IF x \in Range(seq) THEN seq ELSE Append(seq, x)

EmptyFn == [x \in {} |-> {}]
Get(f, k, d) == IF k \in DOMAIN f THEN f[k] ELSE d
Put(f, k, v) == [x \in (DOMAIN f) \cup {k} |-> IF x = k THEN v ELSE f[x]]
Del(f, k) == [x \in (DOMAIN f) \ {k} |-> f[x]]

----------------------------------------------------------------------------
(* The program representation: methods, blocks and edges *)

MAIN == "__MAIN__"
MSN == "__MAIN__"
RETNAME == "__RETNAME__"
UNKNOWN == "*"
SCALAR == "SCALAR"

Block(kind, op, lhs, rhs, idx, callee, args) ==
    [kind |-> kind, op |-> op, lhs |-> lhs, rhs |-> rhs, idx |-> idx,
     callee |-> callee, args |-> args]

BEntry == Block("Entry", "", "", "", "", "", <<>>)
BExit == Block("Exit", "", "", "", "", "", <<>>)
BBranch(cond) == Block("Branch", "", "", cond, "", "", <<>>)
BAssignLit(lhs, lit) == Block("Stmt", "assign_lit", lhs, lit, "", "", <<>>)
BAssignVar(lhs, rhs) == Block("Stmt", "assign_var", lhs, rhs, "", "", <<>>)
BAssignArray(lhs, idx, rhs) == Block("Stmt", "assign_array", lhs, rhs, idx, "", <<>>)
BAssignArrayVar(lhs, idx, rhs) == Block("Stmt", "assign_array_var", lhs, rhs, idx, "", <<>>)
BAssignAccess(lhs, rhs, idx) == Block("Stmt", "assign_access", lhs, rhs, idx, "", <<>>)
BCall(lhs, callee, args) == Block("Stmt", "call", lhs, "", "", callee, args)
\* $target->callee (args): the receiver is kept in the rhs field
BCallOn(target, lhs, callee, args) ==
    Block("Stmt", "call", lhs, target, "", callee, args)
\* $name (args), a Variable_method: the idx field marks it
BCallVar(lhs, name, args) ==
    Block("Stmt", "call", lhs, "", "variable_method", name, args)
BFake == Block("Fake", "", "", "", "", "", <<>>)
BReturn(rv) == Block("Stmt", "return", "", rv, "", "", <<>>)

\* an actual parameter: a variable or a literal, possibly marked by-reference
ArgVar(v) == [var |-> TRUE, v |-> v, ref |-> FALSE]
ArgLit(v) == [var |-> FALSE, v |-> v, ref |-> FALSE]
ArgRef(v) == [var |-> TRUE, v |-> v, ref |-> TRUE]

E(src, dst, dir) == [src |-> src, dst |-> dst, dir |-> dir]

UserMethod(params, byref, defaults, retref, entry, exit, blocks, edges) ==
    [impl |-> TRUE, params |-> params, byref |-> byref, defaults |-> defaults,
     retref |-> retref, entry |-> entry, exit |-> exit, blocks |-> blocks,
     edges |-> edges]

\* a method without implementation: Summary_method_info's synthetic graph
\* of an entry block, the block standing for the whole method, and an exit
SummaryMethod(params, entry, fake, exit) ==
    [impl |-> FALSE, params |-> params, byref |-> [i \in DOMAIN params |-> FALSE],
     defaults |-> [i \in DOMAIN params |-> FALSE], retref |-> FALSE,
     entry |-> entry, fake |-> fake, exit |-> exit,
     blocks |-> entry :> BEntry @@ fake :> BFake @@ exit :> BExit,
     edges |-> <<E(entry, fake, "N"), E(fake, exit, "N")>>]

\* $x = 5; $y = $x;
ProgStraight ==
    MAIN :> UserMethod(<<>>, <<>>, <<>>, FALSE, 1, 4,
        1 :> BEntry @@ 2 :> BAssignLit("x", "5") @@ 3 :> BAssignVar("y", "x")
          @@ 4 :> BExit,
        <<E(1, 2, "N"), E(2, 3, "N"), E(3, 4, "N")>>)

\* $c = <lit>; if ($c) $x = 5; else $x = 0; $y = $x;
ProgBranch(lit) ==
    MAIN :> UserMethod(<<>>, <<>>, <<>>, FALSE, 1, 7,
        1 :> BEntry @@ 2 :> BAssignLit("c", lit) @@ 3 :> BBranch("c")
          @@ 4 :> BAssignLit("x", "5") @@ 5 :> BAssignLit("x", "0")
          @@ 6 :> BAssignVar("y", "x") @@ 7 :> BExit,
        <<E(1, 2, "N"), E(2, 3, "N"), E(3, 4, "T"), E(3, 5, "F"),
          E(4, 6, "N"), E(5, 6, "N"), E(6, 7, "N")>>)

\* $c = $argc; if ($c) $x = 5; else $x = 0; $y = $x;
ProgBranchUnknown ==
    MAIN :> UserMethod(<<>>, <<>>, <<>>, FALSE, 1, 7,
        1 :> BEntry @@ 2 :> BAssignVar("c", "argc") @@ 3 :> BBranch("c")
          @@ 4 :> BAssignLit("x", "5") @@ 5 :> BAssignLit("x", "0")
          @@ 6 :> BAssignVar("y", "x") @@ 7 :> BExit,
        <<E(1, 2, "N"), E(2, 3, "N"), E(3, 4, "T"), E(3, 5, "F"),
          E(4, 6, "N"), E(5, 6, "N"), E(6, 7, "N")>>)

\* $i = 0; while ($argc) $i = 1;
ProgLoop ==
    MAIN :> UserMethod(<<>>, <<>>, <<>>, FALSE, 1, 5,
        1 :> BEntry @@ 2 :> BAssignLit("i", "0") @@ 3 :> BBranch("argc")
          @@ 4 :> BAssignLit("i", "1") @@ 5 :> BExit,
        <<E(1, 2, "N"), E(2, 3, "N"), E(3, 4, "T"), E(3, 5, "F"),
          E(4, 3, "N")>>)

\* function f($p) { $q = $p; }  $a = 5; $y = f($a);
ProgCall ==
    MAIN :> UserMethod(<<>>, <<>>, <<>>, FALSE, 1, 4,
        1 :> BEntry @@ 2 :> BAssignLit("a", "5")
          @@ 3 :> BCall("y", "f", <<ArgVar("a")>>) @@ 4 :> BExit,
        <<E(1, 2, "N"), E(2, 3, "N"), E(3, 4, "N")>>)
    @@ "f" :> UserMethod(<<"p">>, <<FALSE>>, <<FALSE>>, FALSE, 5, 7,
        5 :> BEntry @@ 6 :> BAssignVar("q", "p") @@ 7 :> BExit,
        <<E(5, 6, "N"), E(6, 7, "N")>>)

\* function f() { return 5; }  $x = f();
ProgLiteral ==
    MAIN :> UserMethod(<<>>, <<>>, <<>>, FALSE, 1, 3,
        1 :> BEntry @@ 2 :> BCall("x", "f", <<>>) @@ 3 :> BExit,
        <<E(1, 2, "N"), E(2, 3, "N")>>)
    @@ "f" :> UserMethod(<<>>, <<>>, <<>>, FALSE, 4, 6,
        4 :> BEntry @@ 5 :> BReturn("5") @@ 6 :> BExit,
        <<E(4, 5, "N"), E(5, 6, "N")>>)

\* function f($p) { return $p; }  $a = 5; $y = f($a);
ProgRoundTrip ==
    MAIN :> UserMethod(<<>>, <<>>, <<>>, FALSE, 1, 4,
        1 :> BEntry @@ 2 :> BAssignLit("a", "5")
          @@ 3 :> BCall("y", "f", <<ArgVar("a")>>) @@ 4 :> BExit,
        <<E(1, 2, "N"), E(2, 3, "N"), E(3, 4, "N")>>)
    @@ "f" :> UserMethod(<<"p">>, <<FALSE>>, <<FALSE>>, FALSE, 5, 7,
        5 :> BEntry @@ 6 :> BReturn("p") @@ 7 :> BExit,
        <<E(5, 6, "N"), E(6, 7, "N")>>)

\* function f($n) { if ($n) f(0); }  f(1);
ProgRecursive ==
    MAIN :> UserMethod(<<>>, <<>>, <<>>, FALSE, 1, 3,
        1 :> BEntry @@ 2 :> BCall("", "f", <<ArgLit("1")>>) @@ 3 :> BExit,
        <<E(1, 2, "N"), E(2, 3, "N")>>)
    @@ "f" :> UserMethod(<<"n">>, <<FALSE>>, <<FALSE>>, FALSE, 4, 7,
        4 :> BEntry @@ 5 :> BBranch("n")
          @@ 6 :> BCall("", "f", <<ArgLit("0")>>) @@ 7 :> BExit,
        <<E(4, 5, "N"), E(5, 6, "T"), E(5, 7, "F"), E(6, 7, "N")>>)

\* function f() { $b = 5; }  f(); f();
ProgTwice ==
    MAIN :> UserMethod(<<>>, <<>>, <<>>, FALSE, 1, 4,
        1 :> BEntry @@ 2 :> BCall("", "f", <<>>) @@ 3 :> BCall("", "f", <<>>)
          @@ 4 :> BExit,
        <<E(1, 2, "N"), E(2, 3, "N"), E(3, 4, "N")>>)
    @@ "f" :> UserMethod(<<>>, <<>>, <<>>, FALSE, 5, 7,
        5 :> BEntry @@ 6 :> BAssignLit("b", "5") @@ 7 :> BExit,
        <<E(5, 6, "N"), E(6, 7, "N")>>)

\* function f() { $b = 5; }  f(); f(); f();
ProgThrice ==
    MAIN :> UserMethod(<<>>, <<>>, <<>>, FALSE, 1, 5,
        1 :> BEntry @@ 2 :> BCall("", "f", <<>>) @@ 3 :> BCall("", "f", <<>>)
          @@ 4 :> BCall("", "f", <<>>) @@ 5 :> BExit,
        <<E(1, 2, "N"), E(2, 3, "N"), E(3, 4, "N"), E(4, 5, "N")>>)
    @@ "f" :> UserMethod(<<>>, <<>>, <<>>, FALSE, 6, 8,
        6 :> BEntry @@ 7 :> BAssignLit("b", "5") @@ 8 :> BExit,
        <<E(6, 7, "N"), E(7, 8, "N")>>)

\* function f() { if ($n) $b = 5; else $b = 6; }  f(); f(); f();
ProgDiamond ==
    MAIN :> UserMethod(<<>>, <<>>, <<>>, FALSE, 1, 5,
        1 :> BEntry @@ 2 :> BCall("", "f", <<>>) @@ 3 :> BCall("", "f", <<>>)
          @@ 4 :> BCall("", "f", <<>>) @@ 5 :> BExit,
        <<E(1, 2, "N"), E(2, 3, "N"), E(3, 4, "N"), E(4, 5, "N")>>)
    @@ "f" :> UserMethod(<<>>, <<>>, <<>>, FALSE, 6, 10,
        6 :> BEntry @@ 7 :> BBranch("n") @@ 8 :> BAssignLit("b", "5")
          @@ 9 :> BAssignLit("b", "6") @@ 10 :> BExit,
        <<E(6, 7, "N"), E(7, 8, "T"), E(7, 9, "F"), E(8, 10, "N"),
          E(9, 10, "N")>>)

\* function c() { <body> }  function b() { $s = c(); }
\* function a() { $t = b(); }  $r = a();
ProgChain(body) ==
    MAIN :> UserMethod(<<>>, <<>>, <<>>, FALSE, 1, 3,
        1 :> BEntry @@ 2 :> BCall("r", "a", <<>>) @@ 3 :> BExit,
        <<E(1, 2, "N"), E(2, 3, "N")>>)
    @@ "a" :> UserMethod(<<>>, <<>>, <<>>, FALSE, 4, 6,
        4 :> BEntry @@ 5 :> BCall("t", "b", <<>>) @@ 6 :> BExit,
        <<E(4, 5, "N"), E(5, 6, "N")>>)
    @@ "b" :> UserMethod(<<>>, <<>>, <<>>, FALSE, 7, 9,
        7 :> BEntry @@ 8 :> BCall("s", "c", <<>>) @@ 9 :> BExit,
        <<E(7, 8, "N"), E(8, 9, "N")>>)
    @@ "c" :> UserMethod(<<>>, <<>>, <<>>, FALSE, 10, 12,
        10 :> BEntry @@ 11 :> body @@ 12 :> BExit,
        <<E(10, 11, "N"), E(11, 12, "N")>>)

\* $v = 1; $x = 5; if ($argc) $x[0] = $v;  $x[1] = $v;
ProgArray ==
    MAIN :> UserMethod(<<>>, <<>>, <<>>, FALSE, 1, 7,
        1 :> BEntry @@ 2 :> BAssignLit("v", "1") @@ 3 :> BAssignLit("x", "5")
          @@ 4 :> BBranch("argc") @@ 5 :> BAssignArray("x", "0", "v")
          @@ 6 :> BAssignArray("x", "1", "v") @@ 7 :> BExit,
        <<E(1, 2, "N"), E(2, 3, "N"), E(3, 4, "N"), E(4, 5, "T"),
          E(4, 6, "F"), E(5, 6, "N"), E(6, 7, "N")>>)

\* $x = $_SESSION['key'];
ProgSession ==
    MAIN :> UserMethod(<<>>, <<>>, <<>>, FALSE, 1, 3,
        1 :> BEntry @@ 2 :> BAssignAccess("x", "_SESSION", "key") @@ 3 :> BExit,
        <<E(1, 2, "N"), E(2, 3, "N")>>)

\* function f(&$p) { $q = $p; }  $a = 5; f($a);
ProgByRef ==
    MAIN :> UserMethod(<<>>, <<>>, <<>>, FALSE, 1, 4,
        1 :> BEntry @@ 2 :> BAssignLit("a", "5")
          @@ 3 :> BCall("", "f", <<ArgVar("a")>>) @@ 4 :> BExit,
        <<E(1, 2, "N"), E(2, 3, "N"), E(3, 4, "N")>>)
    @@ "f" :> UserMethod(<<"p">>, <<TRUE>>, <<FALSE>>, FALSE, 5, 7,
        5 :> BEntry @@ 6 :> BAssignVar("q", "p") @@ 7 :> BExit,
        <<E(5, 6, "N"), E(6, 7, "N")>>)

\* function &f() { $b = 5; }  $y = f();
ProgRetRef ==
    MAIN :> UserMethod(<<>>, <<>>, <<>>, FALSE, 1, 3,
        1 :> BEntry @@ 2 :> BCall("y", "f", <<>>) @@ 3 :> BExit,
        <<E(1, 2, "N"), E(2, 3, "N")>>)
    @@ "f" :> UserMethod(<<>>, <<>>, <<>>, TRUE, 4, 6,
        4 :> BEntry @@ 5 :> BAssignLit("b", "5") @@ 6 :> BExit,
        <<E(4, 5, "N"), E(5, 6, "N")>>)

\* $a = 5; $n = <name> ($a);  for a built-in <name>
ProgBuiltin(name) ==
    MAIN :> UserMethod(<<>>, <<>>, <<>>, FALSE, 1, 4,
        1 :> BEntry @@ 2 :> BAssignLit("a", "5")
          @@ 3 :> BCall("n", name, <<ArgVar("a")>>) @@ 4 :> BExit,
        <<E(1, 2, "N"), E(2, 3, "N"), E(3, 4, "N")>>)
    @@ name :> SummaryMethod(<<"arg">>, 5, 6, 7)

\* function f($p) { $q = $p; }  $a = 5; $o->f($a);
ProgTarget ==
    MAIN :> UserMethod(<<>>, <<>>, <<>>, FALSE, 1, 4,
        1 :> BEntry @@ 2 :> BAssignLit("a", "5")
          @@ 3 :> BCallOn("o", "", "f", <<ArgVar("a")>>) @@ 4 :> BExit,
        <<E(1, 2, "N"), E(2, 3, "N"), E(3, 4, "N")>>)
    @@ "f" :> UserMethod(<<"p">>, <<FALSE>>, <<FALSE>>, FALSE, 5, 7,
        5 :> BEntry @@ 6 :> BAssignVar("q", "p") @@ 7 :> BExit,
        <<E(5, 6, "N"), E(6, 7, "N")>>)

\* function f($p) { $q = $p; }  $a = 5; $f($a);
ProgVariableMethod ==
    MAIN :> UserMethod(<<>>, <<>>, <<>>, FALSE, 1, 4,
        1 :> BEntry @@ 2 :> BAssignLit("a", "5")
          @@ 3 :> BCallVar("", "f", <<ArgVar("a")>>) @@ 4 :> BExit,
        <<E(1, 2, "N"), E(2, 3, "N"), E(3, 4, "N")>>)
    @@ "f" :> UserMethod(<<"p">>, <<FALSE>>, <<FALSE>>, FALSE, 5, 7,
        5 :> BEntry @@ 6 :> BAssignVar("q", "p") @@ 7 :> BExit,
        <<E(5, 6, "N"), E(6, 7, "N")>>)

\* function f() { $i = 1; while ($i) $x = 1; }  $y = f();
ProgSpin ==
    MAIN :> UserMethod(<<>>, <<>>, <<>>, FALSE, 1, 3,
        1 :> BEntry @@ 2 :> BCall("y", "f", <<>>) @@ 3 :> BExit,
        <<E(1, 2, "N"), E(2, 3, "N")>>)
    @@ "f" :> UserMethod(<<>>, <<>>, <<>>, FALSE, 4, 8,
        4 :> BEntry @@ 5 :> BAssignLit("i", "1") @@ 6 :> BBranch("i")
          @@ 7 :> BAssignLit("x", "1") @@ 8 :> BExit,
        <<E(4, 5, "N"), E(5, 6, "N"), E(6, 7, "T"), E(6, 8, "F"),
          E(7, 6, "N")>>)

\* function f() { f(); }  f();
ProgForever ==
    MAIN :> UserMethod(<<>>, <<>>, <<>>, FALSE, 1, 3,
        1 :> BEntry @@ 2 :> BCall("", "f", <<>>) @@ 3 :> BExit,
        <<E(1, 2, "N"), E(2, 3, "N")>>)
    @@ "f" :> UserMethod(<<>>, <<>>, <<>>, FALSE, 4, 6,
        4 :> BEntry @@ 5 :> BCall("", "f", <<>>) @@ 6 :> BExit,
        <<E(4, 5, "N"), E(5, 6, "N")>>)

\* $a = 5; $y = g($a);  with no method g known to the oracle
ProgUnknownMethod ==
    MAIN :> UserMethod(<<>>, <<>>, <<>>, FALSE, 1, 4,
        1 :> BEntry @@ 2 :> BAssignLit("a", "5")
          @@ 3 :> BCall("y", "g", <<ArgVar("a")>>) @@ 4 :> BExit,
        <<E(1, 2, "N"), E(2, 3, "N"), E(3, 4, "N")>>)

\* the built-in functions the programs of the model call
Builtins ==
    {"strlen", "dechex", "print", "is_array", "is_object", "trigger_error",
     "count"}

Programs ==
    "straight" :> ProgStraight
    @@ "branch_true" :> ProgBranch("1")
    @@ "branch_false" :> ProgBranch("0")
    @@ "branch_unknown" :> ProgBranchUnknown
    @@ "loop" :> ProgLoop
    @@ "call" :> ProgCall
    @@ "literal" :> ProgLiteral
    @@ "round_trip" :> ProgRoundTrip
    @@ "recursive" :> ProgRecursive
    @@ "twice" :> ProgTwice
    @@ "thrice" :> ProgThrice
    @@ "diamond" :> ProgDiamond
    @@ "chain" :> ProgChain(BAssignLit("r", "5"))
    @@ "chain_return" :> ProgChain(BReturn("5"))
    @@ "array" :> ProgArray
    @@ "session" :> ProgSession
    @@ "byref" :> ProgByRef
    @@ "retref" :> ProgRetRef
    @@ "target" :> ProgTarget
    @@ "variable_method" :> ProgVariableMethod
    @@ "unknown_method" :> ProgUnknownMethod
    @@ "forever" :> ProgForever
    @@ "spin" :> ProgSpin
    @@ [name \in Builtins |-> ProgBuiltin(name)]

\* a program under analysis: its name and the method infos of its methods
Program(n) == [name |-> n, methods |-> Programs[n]]

Methods(p) == p.methods
MethodNames(p) == DOMAIN p.methods
Info(p, m) == p.methods[m]

AllBlocks(p) == UNION {DOMAIN Info(p, m).blocks : m \in MethodNames(p)}
MethodOf(p, bb) == CHOOSE m \in MethodNames(p) : bb \in DOMAIN Info(p, m).blocks
BlockAt(p, bb) == Info(p, MethodOf(p, bb)).blocks[bb]

\* an edge is named by its method and its position in the method's edge list
EdgeIds(p) ==
    UNION {{<<m, i>> : i \in 1..Len(Info(p, m).edges)} : m \in MethodNames(p)}
EdgeAt(p, e) == Info(p, e[1]).edges[e[2]]

\* ST (bb): the storage node of the scope the block belongs to
ST(p, bb) == MethodOf(p, bb)

----------------------------------------------------------------------------
(* Analysis state of one block.  aliasing owns pts, sto and refs; ccp owns *)
(* lit; type-inference owns typ; def-use owns uses.  An index node is the  *)
(* pair <<storage, index>>; a node missing from lit is TOP.                *)

Analyses ==
    <<"debug-wpa", "aliasing", "callgraph", "ccp", "def-use", "type-inference">>

EmptyState ==
    [pts |-> EmptyFn, sto |-> EmptyFn, refs |-> {}, lit |-> EmptyFn,
     typ |-> EmptyFn, uses |-> {}]

ScalarTypes == {"int", "string", "bool", "real", "unset"}
get_scalar_types(types) == types \cap ScalarTypes
get_array_types(types) == types \cap {"array"}
get_object_types(types) == types \ (ScalarTypes \cup {"array"})

LitType(l) == IF l \in {"0", "1", "5"} THEN "int" ELSE "string"
from_literal(l) == [lit |-> l, types |-> {LitType(l)}]
from_types(types) == [lit |-> "BOTTOM", types |-> types]
unknown_value == [lit |-> "BOTTOM", types |-> {}]

JoinLit(a, b) ==
    IF a = "TOP" THEN b
    ELSE IF b = "TOP" THEN a
    ELSE IF a = b THEN a
    ELSE "BOTTOM"

JoinFn(f, g, join(_, _)) ==
    [x \in (DOMAIN f) \cup (DOMAIN g) |->
        IF x \notin DOMAIN g THEN f[x]
        ELSE IF x \notin DOMAIN f THEN g[x]
        ELSE join(f[x], g[x])]

\* the part of a block state one analysis keeps
Component(wpa, S) ==
    CASE wpa = "aliasing" -> [pts |-> S.pts, sto |-> S.sto, refs |-> S.refs]
      [] wpa = "ccp" -> [lit |-> S.lit]
      [] wpa = "type-inference" -> [typ |-> S.typ]
      [] wpa = "def-use" -> [uses |-> S.uses]
      [] OTHER -> [none |-> {}]

\* one analysis's reaction to a mutation primitive
Mutate(wpa, S, op, name, arg, val) ==
    CASE wpa = "aliasing" ->
           CASE op = "kill_value" -> [S EXCEPT !.pts = Del(@, name)]
             [] op = "assign_scalar" ->
                  [S EXCEPT !.pts = Put(@, name, Get(@, name, {}) \cup {SCALAR})]
             [] op \in {"assign_empty_array", "assign_storage"} ->
                  [S EXCEPT !.pts = Put(@, name, Get(@, name, {}) \cup {arg}),
                            !.sto = Put(@, arg, val)]
             [] op = "kill_reference" ->
                  [S EXCEPT !.refs = {r \in @ : r.from /= name}]
             [] op = "create_reference" ->
                  [S EXCEPT !.refs = @ \cup {[from |-> name, to |-> val, cert |-> arg]}]
             [] OTHER -> S
      [] wpa = "ccp" ->
           CASE op = "kill_value" -> [S EXCEPT !.lit = Del(@, name)]
             [] op = "assign_scalar" ->
                  LET v == JoinLit(Get(S.lit, name, "TOP"), val.lit)
                  IN  IF v = "TOP" THEN S ELSE [S EXCEPT !.lit = Put(@, name, v)]
             [] OTHER -> S
      [] wpa = "type-inference" ->
           CASE op = "kill_value" -> [S EXCEPT !.typ = Del(@, name)]
             [] op = "assign_scalar" ->
                  [S EXCEPT !.typ = Put(@, name, Get(@, name, {}) \cup val.types)]
             [] OTHER -> S
      [] wpa = "def-use" ->
           CASE op = "record_use" -> [S EXCEPT !.uses = @ \cup {name}]
             [] OTHER -> S
      [] OTHER -> S

Call(op, wpa, bb, name, arg) ==
    [op |-> op, wpa |-> wpa, bb |-> bb, name |-> name, arg |-> arg]

\* the running context of a block's transfer: the block's working state,
\* the protocol calls made so far, the failure (if any) and a result slot
Ctx(S) == [S |-> S, tr |-> <<>>, fail |-> "", res |-> <<>>]

Failed(c) == c.fail /= ""
Fail(c, what) == IF Failed(c) THEN c ELSE [c EXCEPT !.fail = what]

\* phc_TODO (): the unimplemented-case failure
phc_TODO(c) == Fail(c, "TODO")

\* wpa->op (bb, name, ...) on a single analysis
WpaCall(c, bb, wpa, op, name, arg, val) ==
    IF Failed(c) THEN c
    ELSE [c EXCEPT !.S = Mutate(wpa, c.S, op, name, arg, val),
                   !.tr = Append(@, Call(op, wpa, bb, name, arg))]

\* the result slot of a context
SetRes(c, res) == [c EXCEPT !.res = res]

\* foreach_wpa (this) wpa->op (bb, name, ...), from the i-th analysis on
RECURSIVE ForeachWpaFrom(_, _, _, _, _, _, _)
ForeachWpaFrom(c, bb, op, name, arg, val, i) ==
    IF Failed(c) \/ i > Len(Analyses) THEN c
    ELSE ForeachWpaFrom(WpaCall(c, bb, Analyses[i], op, name, arg, val),
                        bb, op, name, arg, val, i + 1)

\* foreach_wpa (this) wpa->op (bb, name, ...)
ForeachWpa(c, bb, op, name, arg, val) ==
    ForeachWpaFrom(c, bb, op, name, arg, val, 1)

----------------------------------------------------------------------------
(* Queries answered by the analyses *)

\* aliasing->get_values (bb, node, PTG_ALL): the storage nodes a node points to
get_values(S, node) == SetToSeq(Get(S.pts, node, {}))

\* aliasing->get_references (bb, node, cert): DEFINITE asks for must-aliases
\* only, POSSIBLE for every alias
get_references(S, node, cert) ==
    SetToSeq({r.to : r \in {x \in S.refs :
                  x.from = node /\ (cert = "POSSIBLE" \/ x.cert = "DEFINITE")}})

\* type_inf->get_types (bb, st->name ()): the types of a storage node
get_types(S, node, st) ==
    IF st = SCALAR THEN Get(S.typ, node, {}) ELSE {Get(S.sto, st, "array")}

\* ccp->branch_known_true / ccp->branch_known_false
branch_known_true(S, cond) ==
    Get(S.lit, cond, "TOP") \notin {"TOP", "BOTTOM", "0", ""}
branch_known_false(S, cond) ==
    Get(S.lit, cond, "TOP") \in {"0", ""}

----------------------------------------------------------------------------
(* Paths.  An Indexing has a base (lhs) that is a named storage node        *)
(* (ST_path) or another path, and an index (rhs) that is a literal name     *)
(* (Index_path) or another path whose value names the index.                *)

ST_path(name) == [st |-> name]
Index_path(name) == [ix |-> name]
Indexing(lhs, rhs) == [lhs |-> lhs, rhs |-> rhs]
is_ST_path(p) == "st" \in DOMAIN p
is_Index_path(p) == "ix" \in DOMAIN p

\* P (storage, name): the variable (or field) `name' of a storage node
P(st, name) == Indexing(ST_path(st), Index_path(name))
\* P (ST (bb), Assign_array*): $lhs[idx], idx a literal
PArray(st, lhs, idx) == Indexing(P(st, lhs), Index_path(idx))
\* P (ST (bb), Assign_array*): $lhs[$idx], idx a variable
PArrayVar(st, lhs, idx) == Indexing(P(st, lhs), P(st, idx))

\* VN (storage, name): the index node of a variable
VN(st, name) == <<st, name>>

----------------------------------------------------------------------------
(* The symbolic-memory layer *)

\* Whole_program::record_use
record_use(c, bb, index_node) ==
    ForeachWpa(c, bb, "record_use", index_node, "POSSIBLE", {})

\* Whole_program::get_string_values: one string per lattice cell
get_string_values(S, index) ==
    LET result == Get(S.lit, index, "TOP")
    IN  IF result = "TOP" THEN <<"">>
        ELSE IF result = "BOTTOM" THEN <<UNKNOWN>>
        ELSE <<result>>

\* Whole_program::get_abstract_value (bb, name)
get_abstract_value(S, name) ==
    [lit |-> Get(S.lit, name, "TOP"), types |-> Get(S.typ, name, {})]

\* a certainty that takes any non-empty target for a single node
is_must_any(indices) == Len(indices) >= 1

\* is_must: all that matters is whether one index node is referred to
is_must(indices) == Len(indices) = 1

RECURSIVE get_named_indices(_, _, _, _)
RECURSIVE kill_value(_, _, _)
RECURSIVE get_all_referenced_names(_, _, _, _, _)
RECURSIVE assign_empty_array(_, _, _, _)

\* acc with the members of seq it does not hold yet
AddAll(acc, seq) == FoldSeq(LAMBDA a, v : AddUnique(a, v), acc, seq)

\* foreach (Storage_node* pointed_to, *aliasing->get_values (...)), from
\* the i-th value on; c.res is the set lhss
RECURSIVE PointedTo(_, _, _, _, _)
PointedTo(c, bb, p, values, i) ==
    IF Failed(c) \/ i > Len(values) THEN c
    ELSE IF values[i] = SCALAR
    THEN \* implicit creation of an array named after the block
         PointedTo(SetRes(assign_empty_array(c, bb, p.lhs, ToString(bb)),
                          AddUnique(c.res, ToString(bb))),
                   bb, p, values, i + 1)
    ELSE PointedTo(SetRes(c, AddUnique(c.res, values[i])), bb, p, values, i + 1)

\* foreach (Index_node* st_index, *get_named_indices (bb, p->lhs, ...)),
\* from the i-th index node on
RECURSIVE StIndices(_, _, _, _, _)
StIndices(c, bb, p, indices, i) ==
    IF Failed(c) \/ i > Len(indices) THEN c
    ELSE StIndices(PointedTo(c, bb, p, get_values(c.S, indices[i]), 1),
                   bb, p, indices, i + 1)

\* the storage nodes indexed by the base, b being the resolved base
LookupBase(b, bb, p) ==
    IF Failed(b) THEN b ELSE StIndices(SetRes(b, <<>>), bb, p, b.res, 1)

\* the storage nodes representing the base of a path (the set lhss)
BaseStorages(c, bb, p, record_uses) ==
    IF is_ST_path(p.lhs) THEN SetRes(c, <<p.lhs.st>>)
    ELSE LookupBase(get_named_indices(c, bb, p.lhs, record_uses), bb, p)

\* foreach (String* value, *get_string_values (bb, field_index))
\*     rhss.insert (*value);
InsertStringValues(c, rhss, field_index) ==
    SetRes(c, AddAll(rhss, get_string_values(c.S, field_index)))

\* foreach (Index_node* field_index, *get_named_indices (bb, p->rhs, ...)),
\* from the i-th index node on; c.res is the set rhss
RECURSIVE FieldIndices(_, _, _, _)
FieldIndices(c, bb, indices, i) ==
    IF Failed(c) \/ i > Len(indices) THEN c
    ELSE FieldIndices(
           InsertStringValues(record_use(c, bb, indices[i]), c.res, indices[i]),
           bb, indices, i + 1)

\* the names the field can have, f being the resolved field path
LookupField(f, bb) ==
    IF Failed(f) THEN f ELSE FieldIndices(SetRes(f, <<>>), bb, f.res, 1)

\* the names of the fields of the storage nodes (the set rhss)
FieldNames(c, bb, p, record_uses) ==
    IF is_Index_path(p.rhs) THEN SetRes(c, <<p.rhs.ix>>)
    ELSE LookupField(get_named_indices(c, bb, p.rhs, record_uses), bb)

\* every lhs paired with every rhs, lhs-major
IndexNodes(lhss, rhss) ==
    FoldSeq(LAMBDA acc, lhs :
              FoldSeq(LAMBDA acc2, rhs : Append(acc2, <<lhs, rhs>>), acc, rhss),
            <<>>, lhss)

\* if (record_uses) record_use (bb, new Index_node (lhs, rhs)), from the
\* i-th node on
RECURSIVE RecordUses(_, _, _, _)
RecordUses(c, bb, nodes, i) ==
    IF Failed(c) \/ i > Len(nodes) THEN c
    ELSE RecordUses(record_use(c, bb, nodes[i]), bb, nodes, i + 1)

\* "Combine the results": cr holds the set rhss
CombineResults(lhss, cr, bb, record_uses) ==
    IF Failed(cr) THEN cr
    ELSE IF cr.res = <<>> THEN Fail(cr, "ASSERT")
    ELSE SetRes(IF record_uses
                THEN RecordUses(cr, bb, IndexNodes(lhss, cr.res), 1)
                ELSE cr,
                IndexNodes(lhss, cr.res))

\* the second half of get_named_indices: cl holds the set lhss
ResolveFields(cl, bb, path, record_uses) ==
    CombineResults(cl.res, FieldNames(cl, bb, path, record_uses), bb, record_uses)

\* Whole_program::get_named_indices: the index nodes a path may lead to
get_named_indices(c, bb, path, record_uses) ==
    IF Failed(c) THEN c
    ELSE ResolveFields(BaseStorages(c, bb, path, record_uses), bb, path,
                       record_uses)

\* foreach (Index_node* ref, ...) foreach_wpa (this)
\*     wpa->kill_value (bb, ref->name ()), from the i-th reference on
RECURSIVE KillRefs(_, _, _, _)
KillRefs(c, bb, refs, i) ==
    IF Failed(c) \/ i > Len(refs) THEN c
    ELSE KillRefs(ForeachWpa(c, bb, "kill_value", refs[i], "", {}), bb, refs, i + 1)

\* what kill_value returns, next to the index nodes it resolved plhs to
Killed(cert, lhss) == [cert |-> cert, lhss |-> lhss]

\* kill_value once plhs is resolved: c1.res is the list lhss
KillIndices(c1, bb) ==
    IF Failed(c1) THEN c1
    ELSE IF c1.res = <<>> THEN Fail(c1, "ASSERT")
    ELSE IF ~is_must(c1.res) THEN SetRes(c1, Killed("POSSIBLE", c1.res))
    ELSE SetRes(
           ForeachWpa(
             KillRefs(c1, bb, get_references(c1.S, c1.res[1], "DEFINITE"), 1),
             bb, "kill_value", c1.res[1], "", {}),
           Killed("DEFINITE", c1.res))

\* Whole_program::kill_value: the certainty with which plhs can be assigned
kill_value(c, bb, plhs) ==
    IF Failed(c) THEN c
    ELSE KillIndices(get_named_indices(c, bb, plhs, FALSE), bb)

\* the names collected in a list instead of a Set<Alias_name>
ReferencedNamesListed(c1, cert) ==
    IF Failed(c1) THEN c1
    ELSE SetRes(c1,
           FoldSeq(LAMBDA acc, lhs :
                     acc \o Append(get_references(c1.S, lhs, cert), lhs),
                   <<>>, c1.res))

\* the names of the index nodes c1.res and of their references
ReferencedNames(c1, cert) ==
    IF Failed(c1) THEN c1
    ELSE SetRes(c1,
           FoldSeq(LAMBDA acc, lhs :
                     AddAll(acc, Append(get_references(c1.S, lhs, cert), lhs)),
                   <<>>, c1.res))

\* Whole_program::get_all_referenced_names
get_all_referenced_names(c, bb, path, cert, record_uses) ==
    IF Failed(c) THEN c
    ELSE ReferencedNames(get_named_indices(c, bb, path, record_uses), cert)

\* the result of the kill kept next to the names to assign to
WithCert(cn, k) ==
    IF Failed(cn) THEN cn
    ELSE SetRes(cn, [cert |-> k.cert, lhss |-> k.lhss, names |-> cn.res])

\* get_all_referenced_names (bb, plhs, cert), ck.res being the kill's result
NamesFor(ck, bb, plhs) ==
    IF Failed(ck) THEN ck
    ELSE WithCert(get_all_referenced_names(ck, bb, plhs, ck.res.cert, FALSE),
                  ck.res)

\* certainty cert = kill_value (bb, plhs);
\* foreach (Alias_name name, *get_all_referenced_names (bb, plhs, cert))
Targets(c, bb, plhs) == NamesFor(kill_value(c, bb, plhs), bb, plhs)

\* foreach (name) foreach_wpa (this) wpa->op (bb, name, ...), from the
\* i-th name on
RECURSIVE ForeachName(_, _, _, _, _, _)
ForeachName(c, bb, op, arg, val, i) ==
    IF Failed(c) \/ i > Len(c.res.names) THEN c
    ELSE ForeachName(ForeachWpa(c, bb, op, c.res.names[i], arg, val),
                     bb, op, arg, val, i + 1)

\* Whole_program::assign_empty_array
assign_empty_array(c, bb, plhs, unique_name) ==
    ForeachName(Targets(c, bb, plhs), bb, "assign_empty_array", unique_name,
                "array", 1)

\* Whole_program::assign_scalar
assign_scalar(c, bb, plhs, lit) ==
    ForeachName(Targets(c, bb, plhs), bb, "assign_scalar", lit,
                from_literal(lit), 1)

\* the body of assign_typed's foreach_wpa loop
TypedValue(c, bb, wpa, name, types) ==
    LET scalars == get_scalar_types(types)
        array == get_array_types(types)
        objects == get_object_types(types)
        c3 == IF scalars /= {}
              THEN WpaCall(c, bb, wpa, "assign_scalar", name, "BOTTOM",
                           from_types(scalars))
              ELSE c
        c4 == IF array /= {} THEN phc_TODO(c3) ELSE c3
    IN  IF objects /= {} THEN phc_TODO(c4) ELSE c4

\* assign_typed's loops, from the i-th name and the j-th analysis on
RECURSIVE TypedNames(_, _, _, _, _)
TypedNames(c, bb, types, i, j) ==
    IF Failed(c) \/ i > Len(c.res.names) THEN c
    ELSE IF j > Len(Analyses) THEN TypedNames(c, bb, types, i + 1, 1)
    ELSE TypedNames(TypedValue(c, bb, Analyses[j], c.res.names[i], types),
                    bb, types, i, j + 1)

\* Whole_program::assign_typed
assign_typed(c, bb, plhs, types) ==
    TypedNames(Targets(c, bb, plhs), bb, types, 1, 1)

\* BB_array_name (bb) and BB_object_name (bb)
BB_array_name(bb) == "array" \o ToString(bb)
BB_object_name(bb) == "object" \o ToString(bb)

\* the body of assign_unknown's foreach_wpa loop
UnknownValue(c, bb, wpa, name) ==
    WpaCall(
      WpaCall(
        WpaCall(c, bb, wpa, "assign_scalar", name, "BOTTOM", unknown_value),
        bb, wpa, "assign_storage", name, BB_array_name(bb), "array"),
      bb, wpa, "assign_storage", name, BB_object_name(bb), "object")

\* assign_unknown's loops, from the i-th name and the j-th analysis on
RECURSIVE UnknownNames(_, _, _, _)
UnknownNames(c, bb, i, j) ==
    IF Failed(c) \/ i > Len(c.res.names) THEN c
    ELSE IF j > Len(Analyses) THEN UnknownNames(c, bb, i + 1, 1)
    ELSE UnknownNames(UnknownValue(c, bb, Analyses[j], c.res.names[i]),
                      bb, i, j + 1)

\* Whole_program::assign_unknown
assign_unknown(c, bb, plhs) == UnknownNames(Targets(c, bb, plhs), bb, 1, 1)

\* assert (!scalars.empty() ^ !array.empty() ^ !objects.empty());
category_assertion(scalars, array, objects) ==
    ((scalars /= {}) /= (array /= {})) /= (objects /= {})

\* the copy of one value of one rhs into name, for one analysis
CopyValue(c, bb, wpa, name, rhs, st) ==
    IF Failed(c) THEN c
    ELSE
      LET types == get_types(c.S, rhs, st)
          scalars == get_scalar_types(types)
          array == get_array_types(types)
          objects == get_object_types(types)
          ok == category_assertion(scalars, array, objects)
          c1 == IF ~ok THEN Fail(c, "ASSERT") ELSE c
          c2 == IF scalars /= {}
                THEN WpaCall(c1, bb, wpa, "assign_scalar", name,
                             get_abstract_value(c1.S, rhs).lit,
                             get_abstract_value(c1.S, rhs))
                ELSE c1
          c3 == IF array /= {} THEN phc_TODO(c2) ELSE c2
      IN  IF objects /= {} THEN phc_TODO(c3) ELSE c3

\* foreach (Storage_node* st, *values), from the l-th value on
RECURSIVE CopyValues(_, _, _, _, _, _, _)
CopyValues(c, bb, wpa, name, rhs, values, l) ==
    IF Failed(c) \/ l > Len(values) THEN c
    ELSE CopyValues(CopyValue(c, bb, wpa, name, rhs, values[l]),
                    bb, wpa, name, rhs, values, l + 1)

\* assign_by_copy's loops, from the i-th name, the j-th analysis and the
\* k-th rhs on
RECURSIVE CopyTo(_, _, _, _, _, _)
CopyTo(c, bb, rhss, i, j, k) ==
    IF Failed(c) \/ i > Len(c.res.names) THEN c
    ELSE IF j > Len(Analyses) THEN CopyTo(c, bb, rhss, i + 1, 1, 1)
    ELSE IF k > Len(rhss) THEN CopyTo(c, bb, rhss, i, j + 1, 1)
    ELSE CopyTo(CopyValues(c, bb, Analyses[j], c.res.names[i], rhss[k],
                           get_values(c.S, rhss[k]), 1),
                bb, rhss, i, j, k + 1)

\* assign_by_copy once prhs is resolved: cr.res is the list rhss
CopyInto(k, cr, bb, plhs) ==
    IF Failed(cr) THEN cr
    ELSE CopyTo(WithCert(get_all_referenced_names(cr, bb, plhs, k.cert, FALSE), k),
                bb, cr.res, 1, 1, 1)

\* assign_by_copy once plhs is killed: ck.res is the kill's result
CopyFrom(ck, bb, plhs, prhs) ==
    IF Failed(ck) THEN ck
    ELSE CopyInto(ck.res, get_named_indices(ck, bb, prhs, TRUE), bb, plhs)

\* Whole_program::assign_by_copy
assign_by_copy(c, bb, plhs, prhs) ==
    CopyFrom(kill_value(c, bb, plhs), bb, plhs, prhs)

\* Whole_program::assign_by_ref: unimplemented
assign_by_ref(c, bb, plhs, prhs) == phc_TODO(c)

----------------------------------------------------------------------------
(* Merging predecessor state and the transfer of one block *)

Indices(seq) == [i \in 1..Len(seq) |-> i]

\* get_predecessor_edges / get_successor_edges, in edge-list order
PredEdges(p, bb) ==
    LET m == MethodOf(p, bb)
    IN  SelectSeq([i \in 1..Len(Info(p, m).edges) |-> <<m, i>>],
                  LAMBDA e : EdgeAt(p, e).dst = bb)
SuccEdges(p, bb) ==
    LET m == MethodOf(p, bb)
    IN  SelectSeq([i \in 1..Len(Info(p, m).edges) |-> <<m, i>>],
                  LAMBDA e : EdgeAt(p, e).src = bb)
get_entry_edge(p, m) == SuccEdges(p, Info(p, m).entry)[1]
get_all_edges(p, m) == {<<m, i>> : i \in 1..Len(Info(p, m).edges)}

\* one analysis's pull_init / pull_first_pred / pull_pred / pull_finish
Pull(wpa, S, op, Ssrc) ==
    LET own(T) == Component(wpa, T)
        set(T, comp) == [f \in DOMAIN T |-> IF f \in DOMAIN comp THEN comp[f] ELSE T[f]]
        joined ==
          CASE wpa = "aliasing" ->
                 [pts |-> JoinFn(S.pts, Ssrc.pts, LAMBDA a, b : a \cup b),
                  sto |-> JoinFn(S.sto, Ssrc.sto, LAMBDA a, b : a),
                  refs |-> S.refs \cup Ssrc.refs]
            [] wpa = "ccp" -> [lit |-> JoinFn(S.lit, Ssrc.lit, JoinLit)]
            [] wpa = "type-inference" ->
                 [typ |-> JoinFn(S.typ, Ssrc.typ, LAMBDA a, b : a \cup b)]
            [] wpa = "def-use" -> [uses |-> S.uses \cup Ssrc.uses]
            [] OTHER -> [none |-> {}]
    IN  CASE op = "pull_init" -> set(S, own(EmptyState))
          [] op = "pull_first_pred" -> set(S, own(Ssrc))
          [] op = "pull_pred" -> set(S, joined)
          [] OTHER -> S

PullCall(c, bb, wpa, op, src, Ssrc) ==
    [c EXCEPT !.S = Pull(wpa, c.S, op, Ssrc),
              !.tr = Append(@, Call(op, wpa, bb, <<>>, ToString(src)))]

\* a merge that takes every predecessor edge, executable or not
MergesFromAny(ex, pred) == TRUE

\* if (!pred->is_executable) continue;
MergesFrom(ex, pred) == ex[pred]

\* Whole_program::pull_results
pull_results(c, p, bb, ex, out) ==
    FoldSeq(
      LAMBDA c1, wpa :
        LET c2 == PullCall(c1, bb, wpa, "pull_init", 0, EmptyState)
            r == FoldSeq(
                   LAMBDA a, pred :
                     LET src == EdgeAt(p, pred).src
                     IN  IF ~MergesFrom(ex, pred) THEN a
                         ELSE IF a.first
                         THEN [first |-> FALSE,
                               c |-> PullCall(a.c, bb, wpa, "pull_first_pred",
                                              src, out[src])]
                         ELSE [first |-> FALSE,
                               c |-> PullCall(a.c, bb, wpa, "pull_pred",
                                              src, out[src])],
                   [first |-> TRUE, c |-> c2], PredEdges(p, bb))
        IN  PullCall(r.c, bb, wpa, "pull_finish", 0, EmptyState),
      c, Analyses)

\* foreach_wpa (this) wpa->aggregate_results (bb): only the calls; the
\* caller stores the working state as the block's OUT
aggregate_results(c, bb) ==
    IF Failed(c) THEN c
    ELSE [c EXCEPT !.tr = @ \o [i \in 1..Len(Analyses) |->
                                  Call("aggregate_results", Analyses[i], bb, <<>>, "")]]

\* debugging is off for the pass and for every analysis
NoDebug == {}

\* the settings of the pass manager the model runs under: debugging off,
\* on for the pass alone, on for the pass and one analysis, on for an
\* analysis but not for the pass
DebugConfigs == {NoDebug, {"wpa"}, {"wpa", "ccp"}, {"ccp"}}

\* the calls of tr other than dump
Protocol(tr) == SelectSeq(tr, LAMBDA x : x.op /= "dump")

\* foreach_wpa of dump, from the i-th analysis on: maybe_enable_debug
\* (wpa->name), then wpa->dump (bb, comment) if debugging is enabled
RECURSIVE DumpFrom(_, _, _, _, _)
DumpFrom(c, bb, comment, dbg, i) ==
    IF i > Len(Analyses) THEN c
    ELSE DumpFrom(IF Analyses[i] \in dbg
                  THEN [c EXCEPT !.tr = Append(@, Call("dump", Analyses[i], bb,
                                                       <<>>, comment))]
                  ELSE c,
                  bb, comment, dbg, i + 1)

\* a dump that also resets what constant propagation knows
dump_clearing(c, bb, comment, dbg) ==
    IF Failed(c) \/ "wpa" \notin dbg THEN c
    ELSE [DumpFrom(c, bb, comment, dbg, 1) EXCEPT !.S.lit = <<>>]

\* Whole_program::dump: CHECK_DEBUG () returns unless debugging is enabled
\* for the pass, whose setting is restored at the end
dump(c, bb, comment, dbg) ==
    IF Failed(c) \/ "wpa" \notin dbg THEN c
    ELSE DumpFrom(c, bb, comment, dbg, 1)

\* Whole_program::visit_return: unimplemented
visit_return(c, bb) == phc_TODO(c)

\* Whole_program::visit_array_access: unimplemented
visit_array_access(c, bb) == phc_TODO(c)

\* visit_block for every block that is not a method invocation
visit_block(c, p, bb) ==
    LET b == BlockAt(p, bb)
        ns == ST(p, bb)
    IN  CASE b.kind = "Branch" -> record_use(c, bb, VN(ns, b.rhs))
          [] b.kind = "Stmt" /\ b.op = "assign_lit" ->
               assign_scalar(c, bb, P(ns, b.lhs), b.rhs)
          [] b.kind = "Stmt" /\ b.op = "assign_var" ->
               assign_by_copy(c, bb, P(ns, b.lhs), P(ns, b.rhs))
          [] b.kind = "Stmt" /\ b.op = "assign_array" ->
               assign_by_copy(c, bb, PArray(ns, b.lhs, b.idx), P(ns, b.rhs))
          [] b.kind = "Stmt" /\ b.op = "assign_array_var" ->
               assign_by_copy(c, bb, PArrayVar(ns, b.lhs, b.idx), P(ns, b.rhs))
          [] b.kind = "Stmt" /\ b.op = "return" -> visit_return(c, bb)
          [] b.kind = "Stmt" /\ b.op = "assign_access" -> visit_array_access(c, bb)
          [] OTHER -> c

\* analyse_block from visit_block on: the transfer function, the OUT sets
\* and the dump of the block
analyse_block(c, p, bb, dbg) ==
    dump(aggregate_results(visit_block(c, p, bb), bb), bb, "After analysis", dbg)

IsCall(p, bb) == BlockAt(p, bb).kind = "Stmt" /\ BlockAt(p, bb).op = "call"

\* successors that ignore what is known of the condition
get_all_branch_successors(p, S, bb) ==
    SelectSeq(SuccEdges(p, bb), LAMBDA e : EdgeAt(p, e).dir = "F")
    \o SelectSeq(SuccEdges(p, bb), LAMBDA e : EdgeAt(p, e).dir = "T")

\* Whole_program::get_branch_successors: false edge first, then true edge
get_branch_successors(p, S, bb) ==
    LET cond == VN(ST(p, bb), BlockAt(p, bb).rhs)
        dir(d) == SelectSeq(SuccEdges(p, bb), LAMBDA e : EdgeAt(p, e).dir = d)
    IN  (IF ~branch_known_true(S, cond) THEN dir("F") ELSE <<>>)
        \o (IF ~branch_known_false(S, cond) THEN dir("T") ELSE <<>>)

\* a pop that counts as a change only if the solution changed
FirstPassNever(was_executable) == FALSE

\* a loop that takes every pop for a first pass
FirstPassAlways(was_executable) == TRUE

\* "Always pass through at least once": the flag a pop starts from
FirstPass(was_executable) == ~was_executable

\* a loop that adds the next blocks whether or not anything changed
NextEdgesAlways(p, S, bb, changed) ==
    IF BlockAt(p, bb).kind = "Branch" THEN get_branch_successors(p, S, bb)
    ELSE IF BlockAt(p, bb).kind /= "Exit" THEN <<SuccEdges(p, bb)[1]>>
    ELSE <<>>

\* "Add next block(s)": what a pop pushes once the target is analysed
NextEdges(p, S, bb, changed) ==
    IF ~changed THEN <<>>
    ELSE IF BlockAt(p, bb).kind = "Branch" THEN get_branch_successors(p, S, bb)
    ELSE IF BlockAt(p, bb).kind /= "Exit" THEN <<SuccEdges(p, bb)[1]>>
    ELSE <<>>

----------------------------------------------------------------------------
(* The binder *)

superglobals ==
    <<"GLOBALS", "_ENV", "_GET", "_POST", "_COOKIE", "_FILES", "_REQUEST",
      "_SERVER", "_SESSION">>

\* foreach (string sg, *PHP::get_superglobals ()), from the i-th on
RECURSIVE InitSuperglobals(_, _, _)
InitSuperglobals(c, entry, i) ==
    IF Failed(c) \/ i > Len(superglobals) THEN c
    ELSE IF superglobals[i] = "GLOBALS" THEN InitSuperglobals(c, entry, i + 1)
    ELSE InitSuperglobals(
           assign_typed(
             assign_empty_array(c, entry, P(MSN, superglobals[i]), superglobals[i]),
             entry, P(superglobals[i], UNKNOWN), {"string"}),
           entry, i + 1)

\* Whole_program::init_superglobals
init_superglobals(c, entry, dbg) ==
    dump(
      assign_typed(
        assign_typed(
          assign_empty_array(
            assign_typed(
              assign_unknown(
                InitSuperglobals(
                  assign_empty_array(c, entry, P(MSN, "GLOBALS"), MSN),
                  entry, 1),
                entry, P("_SESSION", UNKNOWN)),
              entry, P(MSN, "argc"), {"int"}),
            entry, P(MSN, "argv"), "argv"),
          entry, P("argv", UNKNOWN), {"string"}),
        entry, P("argv", "0"), {"string"}),
      entry, "After superglobals", dbg)

param_by_ref(info, i) == i <= Len(info.byref) /\ info.byref[i]
default_param(info, i) == i <= Len(info.defaults) /\ info.defaults[i]

HookCalls(op, bb, other) ==
    [i \in 1..Len(Analyses) |-> Call(op, Analyses[i], bb, <<>>, ToString(other))]

\* foreach (Actual_parameter* ap, *in->actual_parameters), from the i-th on
RECURSIVE BindActuals(_, _, _, _, _, _)
BindActuals(c, p, m, caller, actuals, i) ==
    IF Failed(c) \/ i > Len(actuals) THEN c
    ELSE BindActuals(
           IF actuals[i].ref \/ param_by_ref(Info(p, m), i)
           THEN assign_by_ref(c, Info(p, m).entry, P(m, Info(p, m).params[i]),
                              P(ST(p, caller), actuals[i].v))
           ELSE IF actuals[i].var
           THEN assign_by_copy(c, Info(p, m).entry, P(m, Info(p, m).params[i]),
                               P(ST(p, caller), actuals[i].v))
           ELSE assign_scalar(c, Info(p, m).entry, P(m, Info(p, m).params[i]),
                              actuals[i].v),
           p, m, caller, actuals, i + 1)

\* "Assign defaults to the remaining parameters": unimplemented
DefaultParams(c, info, i) ==
    IF default_param(info, i) THEN phc_TODO(c) ELSE c

\* Whole_program::forward_bind; caller = 0 stands for NULL.  Every
\* analysis's forward_bind hook seeds the entry block from the caller.
forward_bind(p, m, caller, Scaller, actuals, dbg) ==
    LET info == Info(p, m)
        entry == info.entry
        c0 == [Ctx(IF caller = 0 THEN EmptyState ELSE Scaller)
                 EXCEPT !.tr = HookCalls("forward_bind", entry, caller)]
    IN  dump(
          aggregate_results(
            DefaultParams(
              BindActuals(IF caller = 0 THEN init_superglobals(c0, entry, dbg)
                          ELSE c0,
                          p, m, caller, actuals, 1),
              info, Len(actuals) + 1),
            entry),
          entry, "After forward_bind", dbg)

\* a backward_bind that leaves the analyses' hooks out
NotifyBackwardBindNone(c, exit, caller) == c

\* foreach_wpa (this) wpa->backward_bind (caller, exit)
NotifyBackwardBind(c, exit, caller) ==
    IF Failed(c) THEN c
    ELSE [c EXCEPT !.tr = @ \o HookCalls("backward_bind", exit, caller)]

\* Whole_program::backward_bind, on the working state of the exit block
\* The dump of the calling block is made only if there is one.
backward_bind(p, m, caller, Sexit, lhs, dbg) ==
    dump(
      NotifyBackwardBind(
        IF lhs = "" THEN Ctx(Sexit)
        ELSE IF Info(p, m).retref
        THEN assign_by_ref(Ctx(Sexit), Info(p, m).exit, P(ST(p, caller), lhs),
                           P(m, RETNAME))
        ELSE assign_by_copy(Ctx(Sexit), Info(p, m).exit, P(ST(p, caller), lhs),
                            P(m, RETNAME)),
        Info(p, m).exit, caller),
      caller, "After backward bind", IF caller = 0 THEN NoDebug ELSE dbg)

----------------------------------------------------------------------------
(* Methods without implementation *)

\* a table that models every method as returning an int
ModelledAsInt(name) == {"int"}

\* the types apply_modelled_function gives the return slot of a method
ModelledTypes(name) ==
    CASE name = "strlen" -> {"int"}
      [] name = "dechex" -> {"string"}
      [] name \in {"is_array", "is_object", "trigger_error"} -> {"bool"}
      [] OTHER -> {}

\* Whole_program::apply_modelled_function
apply_modelled_function(c, name, bb) ==
    IF name = "print" THEN assign_scalar(c, bb, P(name, RETNAME), "1")
    ELSE IF ModelledTypes(name) /= {}
    THEN assign_typed(c, bb, P(name, RETNAME), ModelledTypes(name))
    ELSE phc_TODO(c)

\* analyse_summary: forward_bind and the OUT sets of the entry block
SummaryEntry(p, m, caller, Scaller, actuals, dbg) ==
    aggregate_results(forward_bind(p, m, caller, Scaller, actuals, dbg),
                      Info(p, m).entry)

\* analyse_summary: "Perform" the function, ce being the entry's context
SummaryFake(ce, p, m, ex, out) ==
    IF Failed(ce) THEN ce
    ELSE aggregate_results(
           apply_modelled_function(
             pull_results(ce, p, Info(p, m).fake, ex,
                          [out EXCEPT ![Info(p, m).entry] = ce.S]),
             m, Info(p, m).fake),
           Info(p, m).fake)

\* analyse_summary: the pull of the exit block, cf being the context of
\* the block standing for the method
SummaryExit(cf, p, m, ex, out) ==
    IF Failed(cf) THEN cf
    ELSE pull_results(cf, p, Info(p, m).exit, ex,
                      [out EXCEPT ![Info(p, m).fake] = cf.S])

----------------------------------------------------------------------------
(* The driver: run (), initialize () and analyses_have_converged () *)

\* One activation of analyse_function: the method, the calling block (0 for
\* NULL), the lhs of the call, the worklist cfg_wl, and the edge and flag of
\* the pop that is waiting for a callee (cur, was).  Three fields record the
\* history of the activation: rerun says the method had been analysed
\* before in this pass and forward_bind left its entry block's OUT as it
\* was; outs0 is every block's OUT when the activation started; np counts
\* the edges its pops pushed; start is what the activation of a called
\* user method began with: the executable flags and every block's IN and
\* OUT state once forward_bind had run; popped is the set of the edges the
\* activation's loop has taken from its worklist.
Frame(m, caller, lhs, wl, rerun, outs0) ==
    [m |-> m, caller |-> caller, lhs |-> lhs, wl |-> wl, cur |-> <<>>,
     was |-> FALSE, rerun |-> rerun, outs0 |-> outs0, np |-> 0,
     start |-> <<>>, popped |-> {}]

\* the result of a step that ran no mutation primitive to its end
NoRes == [cert |-> "", lhss |-> <<>>, names |-> <<>>]

\* what the mutation primitive of a block left: the certainty of its kill,
\* the index nodes of its target and the names it assigned to
ResOf(c, assigns) == IF assigns /\ ~Failed(c) THEN c.res ELSE NoRes

NoStep == [kind |-> "none", e |-> <<>>, bb |-> 0, was |-> FALSE,
           changed |-> FALSE, pushed |-> <<>>, pulled |-> EmptyState,
           res |-> NoRes]

\* the record of the last step: the popped edge, its target, whether the
\* edge was executable, the changed flag, the edges pushed, the IN state
\* pull_results left and the result of the block's mutation primitive
Step(kind, e, bb, was, changed, pushed, pulled, res) ==
    [kind |-> kind, e |-> e, bb |-> bb, was |-> was, changed |-> changed,
     pushed |-> pushed, pulled |-> pulled, res |-> res]

\* the state one registered analysis holds, as equals () compares it
Snapshot(wpa) ==
    [name |-> wpa,
     ins |-> [b \in DOMAIN ins |-> Component(wpa, ins[b])],
     outs |-> [b \in DOMAIN outs |-> Component(wpa, outs[b])],
     cg |-> IF wpa = "callgraph" THEN callgraph ELSE <<>>,
     cfg |-> agen]

\* Whole_program::analyses (empty until initialize () has run once)
analyses == IF agen < 0 THEN <<>> ELSE [i \in 1..Len(Analyses) |-> Snapshot(Analyses[i])]

\* a save that leaves the snapshots of older passes in front of the new ones
save_after_old_analyses(old, cur) == old \o cur

\* initialize (): old_analyses.clear (); old_analyses.push_back_all (&analyses);
save_old_analyses(old, cur) == cur

\* a test that takes the absence of a previous snapshot for convergence
analyses_converged_at_once(old, cur) ==
    Len(old) = 0 \/ \A i \in 1..Len(cur) : cur[i] = old[i]

\* Whole_program::analyses_have_converged
analyses_have_converged(old, cur) ==
    IF Len(old) = 0 THEN FALSE
    ELSE \A i \in 1..Len(cur) : cur[i] = old[i]

\* callgraph->bottom_up (): callees before callers
bottom_up(cg) == [i \in 1..Len(cg) |-> cg[Len(cg) + 1 - i]]

\* the methods run () optimises: those with a user implementation
UserMethods(p, cg) == SelectSeq(bottom_up(cg), LAMBDA m : Info(p, m).impl)

Abort(what) ==
    /\ pc' = "failed"
    /\ fail' = what

\* foreach (Edge* e, *cfg->get_all_edges ()) e->is_executable = false;
ResetEdges(ex, p, m) ==
    [e \in DOMAIN ex |-> IF e \in get_all_edges(p, m) THEN FALSE ELSE ex[e]]

\* the edges of the synthetic graphs of the methods without implementation.
\* Nothing in analyse_summary sets their is_executable flag, which is
\* whatever the graph was built with.
SummaryEdges(p) == {e \in EdgeIds(p) : ~Info(p, e[1]).impl}

Init ==
    /\ prog \in {Program(n) : n \in DOMAIN Programs}
    /\ debug \in DebugConfigs
    /\ pc = "init"
    /\ w = 0
    /\ stack = <<>>
    /\ \E flags \in [SummaryEdges(prog) -> BOOLEAN] :
          exec = [e \in EdgeIds(prog) |->
                    IF e \in SummaryEdges(prog) THEN flags[e] ELSE FALSE]
    /\ ins = [b \in AllBlocks(prog) |-> EmptyState]
    /\ outs = [b \in AllBlocks(prog) |-> EmptyState]
    /\ chg = [b \in AllBlocks(prog) |-> FALSE]
    /\ callgraph = <<>>
    /\ old_analyses = <<>>
    /\ gen = 0
    /\ agen = -1
    /\ opt = [mi |-> 1, i |-> -1]
    /\ output = [side_effecting |-> {}, replaced |-> {}, stripped |-> FALSE]
    /\ trace = <<>>
    /\ last = NoStep
    /\ fail = ""

\* One pass of run ()'s outer loop up to the first worklist pop: initialize (),
\* then invoke_method (__MAIN__) as far as analyse_function's initialisation.
Initialize ==
    /\ pc = "init"
    /\ w < MaxOuter
    /\ \E c \in {forward_bind(prog, MAIN, 0, EmptyState, <<>>, debug)} :
       LET entry == Info(prog, MAIN).entry
           fresh == [b \in AllBlocks(prog) |-> EmptyState]
       IN  /\ old_analyses' = save_old_analyses(old_analyses, analyses)
           /\ agen' = gen
           /\ exec' = ResetEdges(exec, prog, MAIN)
           /\ ins' = [fresh EXCEPT ![entry] = c.S]
           /\ outs' = IF Failed(c) THEN fresh ELSE [fresh EXCEPT ![entry] = c.S]
           /\ chg' = [b \in AllBlocks(prog) |-> ~Failed(c) /\ b = entry /\ c.S /= EmptyState]
           /\ callgraph' = <<MAIN>>
           /\ trace' = c.tr
           /\ stack' = <<Frame(MAIN, 0, "", <<get_entry_edge(prog, MAIN)>>,
                                FALSE, fresh)>>
           /\ last' = NoStep
           /\ IF Failed(c) THEN Abort(c.fail)
              ELSE pc' = "analyse" /\ fail' = ""
    /\ UNCHANGED <<prog, debug, w, gen, opt, output>>

Top == stack[Len(stack)]
SetTop(f) == [stack EXCEPT ![Len(stack)] = f]

\* One iteration of analyse_function's worklist loop whose target block is
\* not a method invocation.
AnalyseBlock ==
    /\ pc = "analyse"
    /\ stack /= <<>>
    /\ Top.cur = <<>>
    /\ Top.wl /= <<>>
    /\ ~IsCall(prog, EdgeAt(prog, Head(Top.wl)).dst)
    /\ \E c0 \in {pull_results(Ctx(ins[EdgeAt(prog, Head(Top.wl)).dst]), prog,
                              EdgeAt(prog, Head(Top.wl)).dst,
                              [exec EXCEPT ![Head(Top.wl)] = TRUE], outs)} :
       \E c2 \in {analyse_block(c0, prog, EdgeAt(prog, Head(Top.wl)).dst,
                                debug)} :
       LET e == Head(Top.wl)
           bb == EdgeAt(prog, e).dst
           was == exec[e]
           ex1 == [exec EXCEPT ![e] = TRUE]
           solution_changed == c2.S /= outs[bb]
           changed == FirstPass(was) \/ solution_changed
           pushed == NextEdges(prog, c2.S, bb, changed)
       IN  /\ exec' = ex1
           /\ ins' = [ins EXCEPT ![bb] = c2.S]
           /\ trace' = c2.tr
           /\ IF Failed(c2)
              THEN /\ Abort(c2.fail)
                   /\ last' = Step("block", e, bb, was, FALSE, <<>>, c0.S, NoRes)
                   /\ UNCHANGED <<outs, chg>>
                   /\ stack' = SetTop([Top EXCEPT !.wl = Tail(@), !.popped = @ \cup {e}])
              ELSE /\ outs' = [outs EXCEPT ![bb] = c2.S]
                   /\ chg' = [chg EXCEPT ![bb] = solution_changed]
                   /\ last' = Step("block", e, bb, was, changed, pushed, c0.S,
                                   ResOf(c2, BlockAt(prog, bb).kind = "Stmt"))
                   /\ stack' = SetTop([Top EXCEPT !.wl = Tail(@) \o pushed,
                                                   !.np = @ + Len(pushed),
                                                   !.popped = @ \cup {e}])
                   /\ UNCHANGED <<pc, fail>>
    /\ UNCHANGED <<prog, debug, w, callgraph, old_analyses, gen, agen, opt, output>>

\* Oracle::get_method_info (name): the methods the oracle knows
OracleKnows(p, name) == name \in MethodNames(p)

\* a resolution by the method's name alone
get_receivers_by_name(p, b) ==
    IF OracleKnows(p, b.callee) THEN <<b.callee>> ELSE <<>>

\* Whole_program::get_possible_receivers: the empty list when the call
\* cannot be resolved to one known method (a phc_TODO in the source)
get_possible_receivers(p, b) ==
    IF b.rhs /= "" THEN <<>>
    ELSE IF b.idx = "variable_method" THEN <<>>
    ELSE IF ~OracleKnows(p, b.callee) THEN <<>>
    ELSE <<b.callee>>

\* method_info->has_implementation ()
has_implementation(p, m) == Info(p, m).impl

\* An iteration of the worklist loop whose target block invokes a method
\* without implementation: the block is pulled, then analyse_summary runs as
\* far as the pull of the synthetic exit block; backward_bind and the rest
\* of the iteration follow in Return.
AnalyseSummary ==
    /\ pc = "analyse"
    /\ stack /= <<>>
    /\ Top.cur = <<>>
    /\ Top.wl /= <<>>
    /\ Len(stack) < MaxDepth
    /\ IsCall(prog, EdgeAt(prog, Head(Top.wl)).dst)
    /\ get_possible_receivers(prog, BlockAt(prog, EdgeAt(prog, Head(Top.wl)).dst)) /= <<>>
    /\ ~has_implementation(prog, BlockAt(prog, EdgeAt(prog, Head(Top.wl)).dst).callee)
    /\ \E c0 \in {pull_results(Ctx(ins[EdgeAt(prog, Head(Top.wl)).dst]), prog,
                              EdgeAt(prog, Head(Top.wl)).dst,
                              [exec EXCEPT ![Head(Top.wl)] = TRUE], outs)} :
       \E ce \in {SummaryEntry(prog, BlockAt(prog, EdgeAt(prog, Head(Top.wl)).dst).callee,
                                EdgeAt(prog, Head(Top.wl)).dst, c0.S,
                                BlockAt(prog, EdgeAt(prog, Head(Top.wl)).dst).args,
                                debug)} :
       \E cf \in {SummaryFake(ce, prog, BlockAt(prog, EdgeAt(prog, Head(Top.wl)).dst).callee,
                               exec, outs)} :
       \E cx \in {SummaryExit(cf, prog, BlockAt(prog, EdgeAt(prog, Head(Top.wl)).dst).callee,
                               exec, outs)} :
       LET e == Head(Top.wl)
           bb == EdgeAt(prog, e).dst
           b == BlockAt(prog, bb)
           m == b.callee
           info == Info(prog, m)
           was == exec[e]
       IN  /\ last' = Step("summary", e, bb, was, FALSE, <<>>, c0.S, NoRes)
           /\ exec' = [exec EXCEPT ![e] = TRUE]
           /\ trace' = c0.tr \o cx.tr
           /\ callgraph' = AddUnique(callgraph, m)
           /\ IF Failed(cx)
              THEN /\ Abort(cx.fail)
                   /\ ins' = [ins EXCEPT ![bb] = c0.S]
                   /\ stack' = SetTop([Top EXCEPT !.wl = Tail(@), !.popped = @ \cup {e}])
                   /\ UNCHANGED <<outs, chg>>
              ELSE /\ ins' = [ins EXCEPT ![bb] = c0.S, ![info.entry] = ce.S,
                                           ![info.fake] = cf.S, ![info.exit] = cx.S]
                   /\ outs' = [outs EXCEPT ![info.entry] = ce.S, ![info.fake] = cf.S]
                   /\ chg' = [chg EXCEPT ![info.entry] = (ce.S /= outs[info.entry]),
                                           ![info.fake] = (cf.S /= outs[info.fake])]
                   /\ stack' = Append(
                        SetTop([Top EXCEPT !.wl = Tail(@), !.cur = e, !.was = was,
                                    !.popped = @ \cup {e}]),
                        Frame(m, bb, b.lhs, <<>>, FALSE, outs))
                   /\ UNCHANGED <<pc, fail>>
    /\ UNCHANGED <<prog, debug, w, old_analyses, gen, agen, opt, output>>

\* An iteration of the worklist loop whose target block invokes a method
\* with an implementation: the block is pulled, then analyse_function is
\* entered for the callee (edges reset, forward bind, entry edge queued).
AnalyseCall ==
    /\ pc = "analyse"
    /\ stack /= <<>>
    /\ Top.cur = <<>>
    /\ Top.wl /= <<>>
    /\ Len(stack) < MaxDepth
    /\ IsCall(prog, EdgeAt(prog, Head(Top.wl)).dst)
    /\ IF get_possible_receivers(prog, BlockAt(prog, EdgeAt(prog, Head(Top.wl)).dst)) = <<>>
       THEN TRUE
       ELSE has_implementation(prog, BlockAt(prog, EdgeAt(prog, Head(Top.wl)).dst).callee)
    /\ \E c0 \in {pull_results(Ctx(ins[EdgeAt(prog, Head(Top.wl)).dst]), prog,
                              EdgeAt(prog, Head(Top.wl)).dst,
                              [exec EXCEPT ![Head(Top.wl)] = TRUE], outs)} :
       LET e == Head(Top.wl)
           bb == EdgeAt(prog, e).dst
           b == BlockAt(prog, bb)
           was == exec[e]
           ex1 == [exec EXCEPT ![e] = TRUE]
           receivers == get_possible_receivers(prog, b)
       IN  /\ last' = Step("call", e, bb, was, FALSE, <<>>, c0.S, NoRes)
           /\ IF receivers = <<>>
              THEN /\ Abort("TODO")
                   /\ exec' = ex1
                   /\ ins' = [ins EXCEPT ![bb] = c0.S]
                   /\ trace' = c0.tr
                   /\ stack' = SetTop([Top EXCEPT !.wl = Tail(@), !.popped = @ \cup {e}])
                   /\ UNCHANGED <<outs, chg, callgraph>>
              ELSE \E cf \in {forward_bind(prog, receivers[1], bb, c0.S, b.args, debug)} :
                   LET m == receivers[1]
                       entry == Info(prog, m).entry
                   IN  /\ exec' = ResetEdges(ex1, prog, m)
                       /\ ins' = [ins EXCEPT ![bb] = c0.S, ![entry] = cf.S]
                       /\ trace' = c0.tr \o cf.tr
                       /\ callgraph' = AddUnique(callgraph, m)
                       /\ stack' = Append(
                            SetTop([Top EXCEPT !.wl = Tail(@), !.cur = e,
                                               !.was = was,
                                               !.popped = @ \cup {e}]),
                            [Frame(m, bb, b.lhs, <<get_entry_edge(prog, m)>>,
                                   m \in Range(callgraph) /\ ~Failed(cf)
                                     /\ cf.S = outs[entry],
                                   outs)
                               EXCEPT !.start =
                                 <<ResetEdges(ex1, prog, m),
                                   [ins EXCEPT ![bb] = c0.S, ![entry] = cf.S],
                                   IF Failed(cf) THEN outs
                                   ELSE [outs EXCEPT ![entry] = cf.S]>>])
                       /\ IF Failed(cf)
                          THEN Abort(cf.fail) /\ UNCHANGED <<outs, chg>>
                          ELSE /\ outs' = [outs EXCEPT ![entry] = cf.S]
                               /\ chg' = [chg EXCEPT ![entry] = (cf.S /= outs[entry])]
                               /\ UNCHANGED <<pc, fail>>
    /\ UNCHANGED <<prog, debug, w, old_analyses, gen, agen, opt, output>>

\* a loop that may be left with edges still on the worklist
WorklistLeft(wl) == TRUE

\* while (cfg_wl->size () > 0): the test that ends the loop
WorklistDone(wl) == Len(wl) = 0

\* The worklist of the innermost analyse_function is empty: backward_bind
\* runs, and the calling block (if any) finishes its analyse_block and the
\* rest of its worklist iteration.
Return ==
    /\ pc = "analyse"
    /\ stack /= <<>>
    /\ Top.cur = <<>>
    /\ WorklistDone(Top.wl)
    /\ \E cb \in {backward_bind(prog, Top.m, Top.caller,
                                ins[Info(prog, Top.m).exit], Top.lhs, debug)} :
       LET f == Top
           exit == Info(prog, f.m).exit
       IN  /\ trace' = IF f.caller = 0 \/ Failed(cb) THEN cb.tr
                       ELSE dump(aggregate_results(cb, f.caller), f.caller,
                                 "After analysis", debug).tr
           /\ IF Failed(cb)
              THEN /\ Abort(cb.fail)
                   /\ ins' = [ins EXCEPT ![exit] = cb.S]
                   /\ last' = Step("return", <<>>, exit, FALSE, FALSE, <<>>,
                                   EmptyState, NoRes)
                   /\ UNCHANGED <<stack, outs, chg, opt>>
              ELSE IF f.caller = 0
              THEN /\ pc' = "optimise"
                   /\ opt' = [mi |-> 1, i |-> -1]
                   /\ stack' = <<>>
                   /\ ins' = [ins EXCEPT ![exit] = cb.S]
                   /\ last' = Step("return", <<>>, exit, FALSE, FALSE, <<>>,
                                   EmptyState, NoRes)
                   /\ UNCHANGED <<fail, outs, chg>>
              ELSE LET bb == f.caller
                       parent == stack[Len(stack) - 1]
                       solution_changed == cb.S /= outs[bb]
                       changed == FirstPass(parent.was) \/ solution_changed
                       pushed == NextEdges(prog, cb.S, bb, changed)
                   IN  /\ ins' = [ins EXCEPT ![exit] = cb.S, ![bb] = cb.S]
                       /\ outs' = [outs EXCEPT ![bb] = cb.S]
                       /\ chg' = [chg EXCEPT ![bb] = solution_changed]
                       /\ stack' = [SubSeq(stack, 1, Len(stack) - 1)
                                      EXCEPT ![Len(stack) - 1] =
                                        [parent EXCEPT !.cur = <<>>,
                                                       !.wl = @ \o pushed,
                                                       !.np = @ + Len(pushed)]]
                       /\ last' = Step("return", parent.cur, bb, parent.was,
                                       changed, pushed, EmptyState,
                                       ResOf(cb, f.lhs /= ""))
                       /\ UNCHANGED <<pc, fail, opt>>
    /\ UNCHANGED <<prog, debug, w, exec, callgraph, old_analyses, gen, agen, output>>

\* The passes and the transformer are external: a pass either leaves the
\* CFG as it is or rewrites it.  Only whether the CFGs still are the version
\* the registered analyses ran on is kept: a rewrite moves the tag away
\* from the analysed one, and the next pass's analyses then differ.
Rewrite(g, analysed, rewritten) == IF rewritten THEN 1 - analysed ELSE g

\* a summary that also writes the linearized graph back to the method
generate_summary_linearized(out, p, m) ==
    [out EXCEPT !.side_effecting =
                  IF Cardinality(DOMAIN Info(p, m).blocks) = 2
                  THEN @ \cup {m} ELSE @,
                !.replaced = @ \cup {m}]

\* Whole_program::generate_summary: the simplest possible inlining
\* information, a method of two blocks does nothing
generate_summary(out, p, m) ==
    [out EXCEPT !.side_effecting =
                  IF Cardinality(DOMAIN Info(p, m).blocks) = 2
                  THEN @ \cup {m} ELSE @]

\* a step of run () on the method m, with the answer it got (if any)
OptCall(op, m, answer) == Call(op, "", 0, m, answer)

\* what run () does once for a method before the rounds
method_optimisation(m) ==
    <<OptCall("merge_contexts", m, ""), OptCall("apply_results", m, ""),
      OptCall("generate_summary", m, "")>>

\* a round that runs the interprocedural passes before the local ones
optimisation_round_ipa_first(m, same) ==
    <<OptCall("clone", m, ""),
      OptCall("run_ipa_passes", m, ""),
      OptCall("run_local_optimization_passes", m, ""),
      OptCall("generate_summary", m, ""),
      OptCall("equals", m, IF same THEN "true" ELSE "false")>>

\* one round of the loop for (int i = 0; i < 10; i++): same is the answer
\* of before->equals (info->cfg)
optimisation_round(m, same) ==
    <<OptCall("clone", m, ""),
      OptCall("run_local_optimization_passes", m, ""),
      OptCall("run_ipa_passes", m, ""),
      OptCall("generate_summary", m, ""),
      OptCall("equals", m, IF same THEN "true" ELSE "false")>>

\* For one method of the bottom-up walk: merge_contexts, apply_results and
\* generate_summary.  The transformer is an external collaborator that may
\* or may not rewrite statements.
OptimiseMethod ==
    /\ pc = "optimise"
    /\ opt.i = -1
    /\ opt.mi <= Len(UserMethods(prog, callgraph))
    /\ \E rewritten \in BOOLEAN : gen' = Rewrite(gen, agen, rewritten)
    /\ opt' = [opt EXCEPT !.i = 0]
    /\ output' = generate_summary(output, prog,
                                   UserMethods(prog, callgraph)[opt.mi])
    /\ trace' = method_optimisation(UserMethods(prog, callgraph)[opt.mi])
    /\ last' = NoStep
    /\ UNCHANGED <<prog, debug, pc, w, stack, exec, ins, outs, chg, callgraph,
                   old_analyses, agen, fail>>

\* One round of the per-method loop: clone, local and interprocedural
\* optimisations, generate_summary, then the test before->equals (cfg).
OptimiseRound ==
    /\ pc = "optimise"
    /\ opt.i >= 0
    /\ opt.i < MaxInner
    /\ \E rewritten \in BOOLEAN :
         /\ gen' = Rewrite(gen, agen, rewritten)
         /\ opt' = IF ~rewritten \/ opt.i + 1 = MaxInner
                   THEN [mi |-> opt.mi + 1, i |-> -1]
                   ELSE [opt EXCEPT !.i = @ + 1]
         /\ trace' = optimisation_round(UserMethods(prog, callgraph)[opt.mi],
                                        ~rewritten)
    /\ output' = generate_summary(output, prog,
                                   UserMethods(prog, callgraph)[opt.mi])
    /\ last' = NoStep
    /\ UNCHANGED <<prog, debug, pc, w, stack, exec, ins, outs, chg, callgraph,
                   old_analyses, agen, fail>>

\* a loop whose last pass is like the others
OnLastPassNever(i) == FALSE

\* if (w == 9)
OnLastPass(i) == i = LastPass

\* The end of one pass of the outer loop: the convergence test, and the
\* phc_TODO of the tenth pass.
ConvergenceTest ==
    /\ pc = "optimise"
    /\ opt.i = -1
    /\ opt.mi > Len(UserMethods(prog, callgraph))
    /\ IF analyses_have_converged(old_analyses, analyses)
       THEN pc' = "annotate" /\ UNCHANGED <<w, fail>>
       ELSE IF OnLastPass(w)
       THEN Abort("TODO") /\ UNCHANGED w
       ELSE pc' = "init" /\ w' = w + 1 /\ UNCHANGED fail
    /\ trace' = <<>>
    /\ last' = NoStep
    /\ UNCHANGED <<prog, debug, stack, exec, ins, outs, chg, callgraph, old_analyses,
                   gen, agen, opt, output>>

\* After the loop: annotate_results and the replacement of every
\* implemented method's statements, then strip ().
Finish ==
    /\ pc = "annotate"
    /\ output' = [output EXCEPT !.replaced = Range(UserMethods(prog, callgraph)),
                                !.stripped = TRUE]
    /\ pc' = "done"
    /\ trace' = <<>>
    /\ last' = NoStep
    /\ UNCHANGED <<prog, debug, w, stack, exec, ins, outs, chg, callgraph,
                   old_analyses, gen, agen, opt, fail>>

Next ==
    \/ Initialize
    \/ AnalyseBlock
    \/ AnalyseCall
    \/ AnalyseSummary
    \/ Return
    \/ OptimiseMethod
    \/ OptimiseRound
    \/ ConvergenceTest
    \/ Finish

Spec == Init /\ [][Next]_vars


----------------------------------------------------------------------------
(* The mutation primitives on their own.  assign_by_ref is unimplemented,   *)
(* so no run of run () builds a reference; the aliasing analysis can        *)
(* nevertheless hold any points-to graph, and the primitives are written    *)
(* against all of them.  MemSpec applies each primitive once to a block     *)
(* whose IN state is drawn from a family of graphs: $x a scalar, an array,  *)
(* one of two arrays, or either a scalar or an array; $x aliased to $y      *)
(* (DEFINITE) and to $z (POSSIBLE); element "0" of array A aliased to $y;   *)
(* an index variable $i whose value is known or unknown.                    *)

MemProg == Program("straight")
MemBlock == EdgeAt(MemProg, get_entry_edge(MemProg, MAIN)).dst

MemRefs ==
    {[from |-> VN(MSN, "x"), to |-> VN(MSN, "y"), cert |-> "DEFINITE"],
     [from |-> VN(MSN, "x"), to |-> VN(MSN, "z"), cert |-> "POSSIBLE"],
     [from |-> VN("A", "0"), to |-> VN(MSN, "y"), cert |-> "DEFINITE"],
     [from |-> VN("B", "0"), to |-> VN(MSN, "y"), cert |-> "POSSIBLE"]}

MemPointsTo == {{SCALAR}, {"A"}, {"A", "B"}, {SCALAR, "A"}}

MemScalars(px) ==
    {VN(MSN, "y"), VN(MSN, "z"), VN(MSN, "i"), VN("A", "0"), VN("B", "0")}
      \cup (IF SCALAR \in px THEN {VN(MSN, "x")} ELSE {})

MemLit(n, li) ==
    CASE n = VN(MSN, "x") -> "5"
      [] n = VN(MSN, "i") -> li
      [] n = VN(MSN, "y") -> "1"
      [] OTHER -> "0"

\* a block state of the family
MemState(px, li, refs) ==
    [pts |-> [n \in MemScalars(px) \cup {VN(MSN, "x")} |->
                IF n = VN(MSN, "x") THEN px ELSE {SCALAR}],
     sto |-> [s \in {"A", "B"} |-> "array"],
     refs |-> refs,
     lit |-> [n \in MemScalars(px) |-> MemLit(n, li)],
     typ |-> [n \in MemScalars(px) |-> {"int"}],
     uses |-> {}]

\* the types type inference may hold for the source $y: any mix of a
\* scalar type, the array type and a class
MemTypes == SUBSET {"int", "array", "C"}

\* the targets and the source the primitives are applied to
MemPaths == {P(MSN, "x"), PArray(MSN, "x", "0"), PArrayVar(MSN, "x", "i")}
MemSource == P(MSN, "y")

MemInit ==
    /\ prog = MemProg
    /\ debug = NoDebug
    /\ pc = "mem"
    /\ w = 0
    /\ stack = <<>>
    /\ exec = [e \in EdgeIds(prog) |-> FALSE]
    /\ \E px \in MemPointsTo : \E li \in {"0", "BOTTOM"} :
       \E refs \in SUBSET MemRefs : \E ty \in MemTypes :
          ins = [b \in AllBlocks(prog) |->
                   IF b = MemBlock
                   THEN [MemState(px, li, refs) EXCEPT !.typ[VN(MSN, "y")] = ty]
                   ELSE EmptyState]
    /\ outs = [b \in AllBlocks(prog) |-> EmptyState]
    /\ chg = [b \in AllBlocks(prog) |-> FALSE]
    /\ callgraph = <<>>
    /\ old_analyses = <<>>
    /\ gen = 0
    /\ agen = -1
    /\ opt = [mi |-> 1, i |-> -1]
    /\ output = [side_effecting |-> {}, replaced |-> {}, stripped |-> FALSE]
    /\ trace = <<>>
    /\ last = NoStep
    /\ fail = ""

\* what one application of a primitive leaves: the block's working state,
\* the calls the analyses received, and (in last) the path it was applied
\* to, the state it started from and the primitive's kill certainty, target
\* index nodes and assigned names
MemApply(prim, path, c) ==
    /\ pc' = IF Failed(c) THEN "failed" ELSE "applied"
    /\ fail' = c.fail
    /\ ins' = [ins EXCEPT ![MemBlock] = c.S]
    /\ trace' = c.tr
    /\ last' = Step(prim, path, MemBlock, FALSE, FALSE, <<>>, ins[MemBlock],
                    ResOf(c, TRUE))
    /\ UNCHANGED <<prog, debug, w, stack, exec, outs, chg, callgraph, old_analyses,
                   gen, agen, opt, output>>

MemAssignScalar ==
    /\ pc = "mem"
    /\ \E path \in MemPaths :
       \E c \in {assign_scalar(Ctx(ins[MemBlock]), MemBlock, path, "1")} :
          MemApply("assign_scalar", path, c)

MemAssignTyped ==
    /\ pc = "mem"
    /\ \E path \in MemPaths :
       \E c \in {assign_typed(Ctx(ins[MemBlock]), MemBlock, path, {"string"})} :
          MemApply("assign_typed", path, c)

MemAssignEmptyArray ==
    /\ pc = "mem"
    /\ \E path \in MemPaths :
       \E c \in {assign_empty_array(Ctx(ins[MemBlock]), MemBlock, path, "new")} :
          MemApply("assign_empty_array", path, c)

MemAssignUnknown ==
    /\ pc = "mem"
    /\ \E path \in MemPaths :
       \E c \in {assign_unknown(Ctx(ins[MemBlock]), MemBlock, path)} :
          MemApply("assign_unknown", path, c)

MemAssignByCopy ==
    /\ pc = "mem"
    /\ \E path \in MemPaths :
       \E c \in {assign_by_copy(Ctx(ins[MemBlock]), MemBlock, path, MemSource)} :
          MemApply("assign_by_copy", path, c)

\* get_all_referenced_names on its own, for either certainty and with and
\* without the recording of uses: last keeps the path, the certainty asked
\* for, the index nodes get_named_indices resolves the path to and the
\* names returned
MemReferencedNames ==
    /\ pc = "mem"
    /\ \E path \in MemPaths : \E cert \in {"DEFINITE", "POSSIBLE"} :
       \E record_uses \in BOOLEAN :
       \E c \in {get_all_referenced_names(Ctx(ins[MemBlock]), MemBlock, path,
                                          cert, record_uses)} :
       \E cl \in {get_named_indices(Ctx(ins[MemBlock]), MemBlock, path,
                                    record_uses)} :
          /\ pc' = IF Failed(c) THEN "failed" ELSE "named"
          /\ fail' = c.fail
          /\ ins' = [ins EXCEPT ![MemBlock] = c.S]
          /\ trace' = c.tr
          /\ last' = Step("get_all_referenced_names", path, MemBlock, FALSE,
                          FALSE, <<>>, ins[MemBlock],
                          IF Failed(c) THEN NoRes
                          ELSE [cert |-> cert, lhss |-> cl.res, names |-> c.res])
          /\ UNCHANGED <<prog, debug, w, stack, exec, outs, chg, callgraph,
                         old_analyses, gen, agen, opt, output>>

MemNext ==
    \/ MemReferencedNames
    \/ MemAssignScalar
    \/ MemAssignTyped
    \/ MemAssignEmptyArray
    \/ MemAssignUnknown
    \/ MemAssignByCopy

MemSpec == MemInit /\ [][MemNext]_vars

----------------------------------------------------------------------------
(* Properties *)

\* the protocol calls of the last step that satisfy a test
CallsWhere(test(_)) == SelectSeq(trace, test)

IsKill(k) == k.op = "kill_value"
NewValueOps == {"assign_scalar", "assign_storage", "assign_empty_array"}
PullOps == {"pull_init", "pull_first_pred", "pull_pred", "pull_finish"}

\* C1 (as claimed): Monotonic executability.  While an activation of
\* analyse_function stays on the call stack, an executable edge of its
\* method's CFG stays executable: neither a worklist step nor the analysis
\* of a callee started from one of its blocks sets the flag back.
C1_MonotonicExecutability ==
    [][\A i \in 1..Len(stack) :
          (i <= Len(stack') /\ stack'[i].m = stack[i].m
             /\ stack'[i].caller = stack[i].caller)
          => \A e \in get_all_edges(prog, stack[i].m) : exec[e] => exec'[e]]_vars

\* the join of two block states, component by component
JoinState(S, T) ==
    [pts |-> JoinFn(S.pts, T.pts, LAMBDA a, b : a \cup b),
     sto |-> JoinFn(S.sto, T.sto, LAMBDA a, b : a),
     refs |-> S.refs \cup T.refs,
     lit |-> JoinFn(S.lit, T.lit, JoinLit),
     typ |-> JoinFn(S.typ, T.typ, LAMBDA a, b : a \cup b),
     uses |-> S.uses \cup T.uses]

\* the predecessor edges of bb that are executable under ex, in order
ExecutablePreds(ex, bb) == SelectSeq(PredEdges(prog, bb), LAMBDA e : ex[e])

\* the pull calls one analysis is owed for the predecessor edges preds
OwedPulls(wpa, bb, preds) ==
    <<Call("pull_init", wpa, bb, <<>>, "0")>>
    \o [i \in 1..Len(preds) |->
          Call(IF i = 1 THEN "pull_first_pred" ELSE "pull_pred", wpa, bb, <<>>,
               ToString(EdgeAt(prog, preds[i]).src))]
    \o <<Call("pull_finish", wpa, bb, <<>>, "0")>>

\* the IN state owed for the predecessor edges preds
OwedIn(preds, out) ==
    IF preds = <<>> THEN EmptyState
    ELSE FoldSeq(LAMBDA S, e : JoinState(S, out[EdgeAt(prog, e).src]),
                 out[EdgeAt(prog, preds[1]).src], Tail(preds))

\* C2: Merge soundness.  Whenever a popped edge's target is pulled, every
\* analysis receives pull_init, pull_first_pred for the first executable
\* predecessor edge, pull_pred for each further one in predecessor order,
\* and pull_finish; the calls and the IN state are those of the list of
\* executable predecessor edges alone.
C2_MergeSoundness ==
    [][last'.kind \in {"block", "call"} =>
         LET bb == last'.bb
             preds == ExecutablePreds([exec EXCEPT ![last'.e] = TRUE], bb)
         IN  /\ SelectSeq(trace', LAMBDA k : k.op \in PullOps)
                  = FoldSeq(LAMBDA tr, wpa : tr \o OwedPulls(wpa, bb, preds),
                            <<>>, Analyses)
             /\ last'.pulled = OwedIn(preds, outs)]_vars

\* C2 witness: a block with two predecessor edges was pulled while one of
\* them was executable and the other was not
C2_Witness ==
    /\ last.kind = "block"
    /\ pc = "analyse"
    /\ Len(PredEdges(prog, last.bb)) = 2
    /\ \E e \in Range(PredEdges(prog, last.bb)) : ~exec[e]
    /\ \E i \in DOMAIN trace : trace[i].op = "pull_first_pred"
    /\ last.pulled /= EmptyState

\* C3 (as claimed): Weak update.  When the target of a mutation primitive
\* resolves to more than one index node, the kill is POSSIBLE, no analysis
\* receives a kill_value call, and every value the IN state gave a name the
\* primitive assigns to is still among its values afterwards.
C3_WeakUpdate ==
    (last.kind = "block" /\ Len(last.res.lhss) > 1) =>
        /\ last.res.cert = "POSSIBLE"
        /\ CallsWhere(IsKill) = <<>>
        /\ \A i \in DOMAIN last.res.names :
              Get(last.pulled.pts, last.res.names[i], {})
                \subseteq Get(outs[last.bb].pts, last.res.names[i], {})

\* the references the state S gives the index node n with certainty cert
RefsOf(S, n, cert) == {r.to : r \in {x \in S.refs : x.from = n /\ x.cert = cert}}

\* the values the calls of the last step delivered to the index node n
DeliveredStorage(n) ==
    {IF trace[i].op = "assign_scalar" THEN SCALAR ELSE trace[i].arg :
       i \in {j \in DOMAIN trace : /\ trace[j].op \in NewValueOps
                                   /\ trace[j].wpa = "aliasing"
                                   /\ trace[j].name = n}}
DeliveredLiteral(n) ==
    LET lits == {trace[i].arg :
                   i \in {j \in DOMAIN trace : /\ trace[j].op = "assign_scalar"
                                               /\ trace[j].wpa = "ccp"
                                               /\ trace[j].name = n}}
    IN  IF lits = {} THEN "TOP"
        ELSE IF Cardinality(lits) = 1 THEN CHOOSE l \in lits : TRUE
        ELSE "BOTTOM"

\* C4: Strong update.  A mutation primitive that ran to its end killed
\* with DEFINITE certainty exactly when its target resolved to one index
\* node.  Then every analysis received kill_value for that node and for
\* each of its DEFINITE references before any of them was given a new
\* value, no kill_value went to a reference that is only POSSIBLE, and
\* afterwards the node holds only what the primitive delivered.
C4_StrongUpdate ==
    (pc = "applied") =>
       /\ (last.res.cert = "DEFINITE") <=> (Len(last.res.lhss) = 1)
       /\ (last.res.cert = "DEFINITE") =>
            LET n == last.res.lhss[1]
                must == {n} \cup RefsOf(last.pulled, n, "DEFINITE")
                may == RefsOf(last.pulled, n, "POSSIBLE") \ must
            IN  /\ \A m \in must : \A a \in Range(Analyses) :
                      \E i \in DOMAIN trace :
                         /\ trace[i] = Call("kill_value", a, last.bb, m, "")
                         /\ \A j \in DOMAIN trace :
                               (trace[j].op \in NewValueOps /\ trace[j].name \in must)
                                 => i < j
                /\ \A i \in DOMAIN trace : IsKill(trace[i]) => trace[i].name \notin may
                /\ Get(ins[last.bb].pts, n, {}) = DeliveredStorage(n)
                /\ Get(ins[last.bb].lit, n, "TOP") = DeliveredLiteral(n)

\* C4 witness: assign_scalar ran to its end on $x, which held the literal 5
\* and had a DEFINITE reference ($y) and a POSSIBLE one ($z)
C4_Witness ==
    /\ pc = "applied"
    /\ last.kind = "assign_scalar"
    /\ last.res.cert = "DEFINITE"
    /\ last.res.lhss = <<VN(MSN, "x")>>
    /\ Get(last.pulled.lit, VN(MSN, "x"), "TOP") = "5"
    /\ RefsOf(last.pulled, VN(MSN, "x"), "DEFINITE") = {VN(MSN, "y")}
    /\ RefsOf(last.pulled, VN(MSN, "x"), "POSSIBLE") = {VN(MSN, "z")}
    /\ Get(ins[last.bb].lit, VN(MSN, "x"), "TOP") = "1"

\* the worklist of the innermost activation of analyse_function has drained
Drained == pc = "analyse" /\ stack /= <<>> /\ Top.cur = <<>> /\ Top.wl = <<>>

\* the OUT states o gives the blocks of method m
OwnOuts(o, m) == [b \in DOMAIN Info(prog, m).blocks |-> o[b]]

\* C5 (as claimed): Fixpoint idempotence.  When analyse_function ran again
\* on a method that had converged for the same entry state and its worklist
\* has drained, every block's OUT is what it was when the run started, and
\* no pop of the run pushed an edge.
C5_FixpointIdempotence ==
    (Drained /\ Top.rerun) =>
        /\ OwnOuts(outs, Top.m) = OwnOuts(Top.outs0, Top.m)
        /\ Top.np = 0

\* C5 (amended): when analyse_function ran again on a method that had
\* converged for the same entry state and its worklist has drained, every
\* block's OUT is what it was when the run started.  The worklist does not
\* drain at once: the first pop of an edge pushes the successor edges of
\* its target, and a later pop pushes only if the target's OUT changed.
C5_FixpointIdempotenceAmended ==
    /\ (Drained /\ Top.rerun) =>
          OwnOuts(outs, Top.m) = OwnOuts(Top.outs0, Top.m)
    /\ (pc = "analyse" /\ last.kind \in {"block", "return"} /\ last.e /= <<>>
          /\ stack /= <<>> /\ Top.m = last.e[1]
          /\ Top.rerun) =>
          /\ (~last.was /\ BlockAt(prog, last.bb).kind /= "Exit")
                => last.pushed /= <<>>
          /\ last.pushed /= <<>> => (~last.was \/ chg[last.bb])

\* C5 witness: a second analysis of a converged method has drained its
\* worklist after its pops pushed edges
C5_Witness ==
    /\ Drained
    /\ Top.rerun
    /\ Top.np > 0
    /\ last.kind = "block"
    /\ ~last.was

\* the methods a method's blocks call
CallsOf(p, m) ==
    {Info(p, m).blocks[b].callee : b \in {x \in DOMAIN Info(p, m).blocks : IsCall(p, x)}}

\* the methods reachable from m in at most n calls
RECURSIVE Reaches(_, _, _)
Reaches(p, ms, n) ==
    IF n = 0 THEN ms
    ELSE Reaches(p, ms \cup UNION {CallsOf(p, m) \cap MethodNames(p) : m \in ms}, n - 1)

\* no method of the program can call itself, directly or through others
NoRecursion(p) ==
    \A m \in MethodNames(p) :
       m \notin Reaches(p, CallsOf(p, m) \cap MethodNames(p), Cardinality(MethodNames(p)))

\* C6 (as claimed): Convergence bound.  For a program without recursion
\* the convergence test at the end of the first pass of the outer loop
\* succeeds: no second pass is started.
C6_ConvergenceBound == NoRecursion(prog) => w = 0

\* C6 (amended): for a program without recursion the convergence test at
\* the end of the first pass fails, there being no previous snapshot, and a
\* second pass is started; the test at the end of the second pass succeeds
\* whenever the CFGs it analysed are the ones the first pass analysed.
C6_ConvergenceBoundAmended ==
    [][(NoRecursion(prog) /\ pc = "optimise" /\ pc' /= "optimise") =>
          /\ w = 0 => (pc' = "init" /\ w' = 1)
          /\ (w = 1 /\ old_analyses /= <<>> /\ old_analyses[1].cfg = agen)
                => (pc' = "annotate" /\ w' = 1)]_vars

\* C6 witness: the analyses of a program without recursion converged at the
\* end of the second pass
C6_Witness ==
    /\ NoRecursion(prog)
    /\ pc = "annotate"
    /\ w = 1
    /\ old_analyses /= <<>>
    /\ old_analyses[1].cfg = agen

\* C7: The outer loop runs at most MaxOuter passes.  A pass that ends
\* converged goes on to annotation and starts no further pass; a pass that
\* ends not converged starts the next pass, except the tenth, which ends in
\* the unimplemented-case failure; annotation and replacement are reached
\* from a converged pass only.
C7_OuterLoopBound ==
    [][/\ w' < MaxOuter
       /\ (pc = "optimise" /\ pc' /= "optimise") =>
             IF analyses_have_converged(old_analyses, analyses)
             THEN pc' = "annotate" /\ w' = w
             ELSE IF w = MaxOuter - 1
             THEN pc' = "failed" /\ fail' = "TODO" /\ w' = w
                    /\ output' = output
             ELSE pc' = "init" /\ w' = w + 1
       /\ (pc' = "annotate" /\ pc /= "annotate") => pc = "optimise"
       /\ (pc' = "done" /\ pc /= "done") => pc = "annotate"]_vars

\* C7 witness: the tenth pass ended not converged and run () failed
C7_Witness ==
    /\ pc = "failed"
    /\ fail = "TODO"
    /\ stack = <<>>
    /\ w = MaxOuter - 1
    /\ ~output.stripped

\* C8: Branch pruning.  When the target of a popped edge is a Branch block
\* and the pop counts as a change, the edges pushed are the true edge alone
\* if constant propagation knows the condition true, the false edge alone
\* if it knows it false, and the false and the true edge otherwise; the
\* edge of the direction ruled out is not pushed.
C8_BranchPruning ==
    (pc = "analyse" /\ last.kind = "block" /\ last.changed
       /\ BlockAt(prog, last.bb).kind = "Branch") =>
       LET v == Get(outs[last.bb].lit,
                    VN(ST(prog, last.bb), BlockAt(prog, last.bb).rhs), "TOP")
           dirs == [i \in DOMAIN last.pushed |-> EdgeAt(prog, last.pushed[i]).dir]
       IN  /\ \A i \in DOMAIN last.pushed :
                 EdgeAt(prog, last.pushed[i]).src = last.bb
           /\ dirs = IF v \in {"TOP", "BOTTOM"} THEN <<"F", "T">>
                     ELSE IF v \in {"0", ""} THEN <<"F">>
                     ELSE <<"T">>

\* C8 witness: a Branch block whose condition is known true was analysed
\* and only its true edge was pushed, the false edge staying non-executable
C8_Witness ==
    /\ pc = "analyse"
    /\ last.kind = "block"
    /\ last.changed
    /\ BlockAt(prog, last.bb).kind = "Branch"
    /\ branch_known_true(outs[last.bb],
                         VN(ST(prog, last.bb), BlockAt(prog, last.bb).rhs))
    /\ Len(last.pushed) = 1
    /\ \E e \in Range(SuccEdges(prog, last.bb)) :
          EdgeAt(prog, e).dir = "F" /\ ~exec[e]

\* the block of the entry method that invokes a method
CallBlock(p) == CHOOSE b \in DOMAIN Info(p, MAIN).blocks : IsCall(p, b)

\* C9 (as claimed): Binder round-trip.  For $a = 5; $y = f ($a); with f
\* returning its parameter, the analysis of the call gets through forward
\* bind, the callee's worklist and backward bind, and the abstract value of
\* $y after the call is the one $a had before it.
C9_BinderRoundTrip ==
    (prog.name = "round_trip") =>
        /\ pc /= "failed"
        /\ (pc \in {"optimise", "annotate", "done"}) =>
              get_abstract_value(outs[CallBlock(prog)], VN(MSN, "y"))
                = get_abstract_value(
                    outs[EdgeAt(prog, PredEdges(prog, CallBlock(prog))[1]).src],
                    VN(MSN, "a"))

\* C10 (as claimed): Literal propagation.  The analysis of
\* function f () { return 5; } $x = f (); does not fail, the assignment to
\* $x is made with DEFINITE certainty, and afterwards $x is the literal 5.
C10_LiteralPropagation ==
    (prog.name = "literal") =>
        /\ pc /= "failed"
        /\ (last.kind = "return" /\ last.bb = CallBlock(prog))
              => last.res.cert = "DEFINITE"
        /\ (pc \in {"optimise", "annotate", "done"}) =>
              get_abstract_value(outs[CallBlock(prog)], VN(MSN, "x")).lit = "5"

\* the index nodes the path $_SESSION['key'] resolves to in the state S
SessionKey(S) ==
    get_named_indices(Ctx(S), Info(prog, MAIN).entry,
                      PArray(MSN, "_SESSION", "key"), FALSE)

\* C11 (as claimed): Unknown superglobal field.  In $x = $_SESSION['key'];
\* with no prior write, the path resolves without failure, not as a
\* must-reference, the abstract value of what it resolves to is BOTTOM, and
\* the analysis of the read raises nothing.
C11_UnknownSuperglobalField ==
    (prog.name = "session" /\ pc \notin {"init"}) =>
        /\ pc /= "failed"
        /\ ~Failed(SessionKey(outs[Info(prog, MAIN).entry]))
        /\ ~is_must(SessionKey(outs[Info(prog, MAIN).entry]).res)
        /\ \A i \in DOMAIN SessionKey(outs[Info(prog, MAIN).entry]).res :
              get_abstract_value(outs[Info(prog, MAIN).entry],
                                 SessionKey(outs[Info(prog, MAIN).entry]).res[i]).lit
                = "BOTTOM"

\* the last step entered analyse_function for the callee of its block
EnteredCallee ==
    /\ last.kind = "call"
    /\ get_possible_receivers(prog, BlockAt(prog, last.bb)) /= <<>>

\* C12 (as claimed): Forward bind.  When a call block enters its callee,
\* each actual is bound to the formal of its position: by a reference from
\* the formal to the actual, created in every analysis, if the actual or
\* the formal is by-reference; otherwise by a copy of the actual's value if
\* it is a variable, and by the literal itself if it is a literal.  The
\* last calls other than dump are every analysis's aggregate_results at
\* the entry block.
C12_ForwardBind ==
    EnteredCallee =>
       LET b == BlockAt(prog, last.bb)
           m == b.callee
           entry == Info(prog, m).entry
           formal(i) == VN(m, Info(prog, m).params[i])
           tr == Protocol(trace)
           n == Len(tr)
       IN  /\ \A i \in DOMAIN b.args :
                 IF b.args[i].ref \/ param_by_ref(Info(prog, m), i)
                 THEN \A a \in Range(Analyses) : \E k \in DOMAIN trace :
                         /\ trace[k].op = "create_reference"
                         /\ trace[k].wpa = a
                         /\ trace[k].bb = entry
                         /\ trace[k].name = formal(i)
                 ELSE IF b.args[i].var
                 THEN get_abstract_value(ins[entry], formal(i))
                        = get_abstract_value(last.pulled,
                                             VN(ST(prog, last.bb), b.args[i].v))
                 ELSE get_abstract_value(ins[entry], formal(i)).lit = b.args[i].v
           /\ n >= Len(Analyses)
           /\ \A j \in 1..Len(Analyses) :
                 tr[n - Len(Analyses) + j]
                   = Call("aggregate_results", Analyses[j], entry, <<>>, "")

\* the calls of a step by which a value, a kill or a reference is delivered
DeliveryOps ==
    NewValueOps \cup {"kill_value", "kill_reference", "create_reference"}

\* what backward_bind owes for the activation f, tr being the calls made
BackwardBound(f, tr) ==
    LET exit == Info(prog, f.m).exit
        target == VN(IF f.caller = 0 THEN MSN ELSE ST(prog, f.caller), f.lhs)
        delivered == {k \in DOMAIN tr : tr[k].op \in DeliveryOps}
        hooks == {k \in DOMAIN tr : tr[k].op = "backward_bind"}
    IN  /\ \A j \in 1..Len(Analyses) : \E k \in hooks :
              tr[k] = Call("backward_bind", Analyses[j], exit, <<>>,
                           ToString(f.caller))
        /\ (f.lhs /= "") <=> (\E k \in delivered : tr[k].name = target)
        /\ f.lhs = "" => delivered = {}
        /\ \A k \in delivered :
              tr[k].bb = exit /\ \A h \in hooks : k < h
        /\ f.lhs /= "" =>
              (Info(prog, f.m).retref <=>
                 \E k \in delivered :
                    tr[k].op = "create_reference" /\ tr[k].name = target)

\* C13 (as claimed): Backward bind.  The step taken once a callee's
\* worklist has drained assigns the call's target variable, in the caller's
\* scope, from the return slot exactly when there is a target: by reference
\* if the method returns by reference, by copy otherwise, in calls made at
\* the callee's exit block; every analysis's backward_bind hook follows,
\* with or without a target.
C13_BackwardBind == [][Drained => BackwardBound(Top, trace')]_vars

\* the positions of the calls tr makes with one of the operations ops
CallsOfOps(tr, ops) == {k \in DOMAIN tr : tr[k].op \in ops}

\* C14: Interprocedural ordering.  A step that runs backward bind starts
\* with the callee's worklist drained.  In the step that returns to a call
\* site, every call of backward bind precedes the aggregate_results calls
\* of the caller's block, and only that step gives the caller's block its
\* OUT state and its solution_changed flag.
C14_InterproceduralOrdering ==
    [][/\ CallsOfOps(trace', {"backward_bind"}) /= {} => Drained
       /\ (Drained /\ Top.caller /= 0 /\ pc' = "analyse") =>
             /\ last'.kind = "return" /\ last'.bb = Top.caller
             /\ \E k \in CallsOfOps(trace', {"aggregate_results"}) :
                   trace'[k].bb = Top.caller
             /\ \A k \in CallsOfOps(trace', {"aggregate_results"}) :
                   /\ trace'[k].bb = Top.caller
                   /\ \A h \in CallsOfOps(trace', DeliveryOps \cup {"backward_bind"}) :
                         h < k
       /\ \A bb \in AllBlocks(prog) :
             (pc = "analyse" /\ IsCall(prog, bb)
                /\ (outs'[bb] /= outs[bb] \/ chg'[bb] /= chg[bb]))
             => (Drained /\ Top.caller = bb)]_vars

\* C14 witness: a callee returned to its call site, whose block was then
\* aggregated and found changed
C14_Witness ==
    /\ pc = "analyse"
    /\ last.kind = "return"
    /\ last.e /= <<>>
    /\ IsCall(prog, last.bb)
    /\ chg[last.bb]
    /\ CallsOfOps(trace, {"backward_bind"}) /= {}
    /\ trace[Len(trace)].op = "aggregate_results"

\* the positions of the calls of hook op that tr makes on analysis a
Hooks(tr, op, a) == {k \in DOMAIN tr : tr[k].op = op /\ tr[k].wpa = a}

\* C15: Bind hooks.  An activation of a method (user or summary) starts
\* only in a step that calls every analysis's forward_bind hook exactly
\* once, for the method's entry block and the calling block, and calls no
\* backward_bind hook; it ends only in a step that follows the draining of
\* its worklist and calls every analysis's backward_bind hook exactly
\* once, for the method's exit block and the calling block.  No other step
\* calls a backward_bind hook, and a forward_bind hook is called outside
\* the start of an activation only by a step that fails.
C15_BindHooks ==
    [][\A a \in Range(Analyses) :
         LET fw == Hooks(trace', "forward_bind", a)
             bw == Hooks(trace', "backward_bind", a)
         IN  /\ Cardinality(fw) <= 1
             /\ Cardinality(bw) <= 1
             /\ Len(stack') > Len(stack) =>
                   /\ bw = {}
                   /\ \E k \in fw :
                         trace'[k] = Call("forward_bind", a,
                                          Info(prog, Top'.m).entry, <<>>,
                                          ToString(Top'.caller))
             /\ fw /= {} => (Len(stack') > Len(stack) \/ pc' = "failed")
             /\ bw /= {} =>
                   /\ Drained
                   /\ fw = {}
                   /\ \A k \in bw :
                         trace'[k] = Call("backward_bind", a,
                                          Info(prog, Top.m).exit, <<>>,
                                          ToString(Top.caller))
             /\ Len(stack') < Len(stack) => (Drained /\ bw /= {})
             /\ (Drained /\ pc' /= "failed") => bw /= {}]_vars

\* C15 witness: the activation of a method without implementation, entered
\* from a call block, has ended with the backward_bind hook of every
\* analysis
C15_Witness ==
    /\ pc = "analyse"
    /\ last.kind = "return"
    /\ IsCall(prog, last.bb)
    /\ ~has_implementation(prog, BlockAt(prog, last.bb).callee)
    /\ \A a \in Range(Analyses) : Cardinality(Hooks(trace, "backward_bind", a)) = 1

\* a worklist pop whose target block is a method invocation is about to
\* be made
CallPop ==
    /\ pc = "analyse"
    /\ stack /= <<>>
    /\ Top.cur = <<>>
    /\ Top.wl /= <<>>
    /\ IsCall(prog, EdgeAt(prog, Head(Top.wl)).dst)

\* the invocation has a statically named method, known to the oracle, and
\* no receiver target
StaticCall(b) ==
    b.rhs = "" /\ b.idx /= "variable_method" /\ OracleKnows(prog, b.callee)

\* the step analyses the invocation b of block bb against exactly one
\* method info, the one of the name, unless it fails on the way
OneReceiver(b, bb) ==
    /\ callgraph' = AddUnique(callgraph, b.callee)
    /\ pc' /= "failed" =>
          /\ Len(stack') = Len(stack) + 1
          /\ Top'.m = b.callee
          /\ Top'.caller = bb

\* C16 (as claimed): Call resolution.  A call with a statically named
\* method and no receiver target is analysed against exactly one method
\* info; a call with a receiver target, a variable method name or a name
\* the oracle does not know fails as unimplemented with no analysis state
\* changed: no block's IN or OUT state, no call graph entry, no call made
\* on an analysis.
C16_CallResolution ==
    [][CallPop =>
         LET bb == EdgeAt(prog, Head(Top.wl)).dst
             b == BlockAt(prog, bb)
         IN  IF StaticCall(b) THEN OneReceiver(b, bb)
             ELSE /\ pc' = "failed" /\ fail' = "TODO"
                  /\ ins' = ins /\ outs' = outs /\ callgraph' = callgraph
                  /\ trace' = <<>>]_vars

\* C16 (amended): a call with a statically named method and no receiver
\* target is analysed against exactly one method info; a call with a
\* receiver target, a variable method name or a name the oracle does not
\* know fails as unimplemented before anything is bound or analysed for
\* the call: no activation starts, the call graph and every OUT state stay,
\* and the only calls made on the analyses are those of pull_results for
\* the calling block, which leave that block's IN state merged from its
\* predecessors.
C16_CallResolutionAmended ==
    [][CallPop =>
         LET bb == EdgeAt(prog, Head(Top.wl)).dst
             b == BlockAt(prog, bb)
         IN  IF StaticCall(b) THEN OneReceiver(b, bb)
             ELSE /\ pc' = "failed" /\ fail' = "TODO"
                  /\ Len(stack') = Len(stack)
                  /\ outs' = outs /\ callgraph' = callgraph
                  /\ \A x \in DOMAIN ins : x /= bb => ins'[x] = ins[x]
                  /\ \A k \in DOMAIN trace' :
                        trace'[k].op \in PullOps /\ trace'[k].bb = bb]_vars

\* C16 witness: the call $o->f ($a), on a receiver target, has failed as
\* unimplemented with the calling block's IN state pulled
C16_Witness ==
    /\ pc = "failed"
    /\ fail = "TODO"
    /\ last.kind = "call"
    /\ BlockAt(prog, last.bb).rhs = "o"
    /\ ins[last.bb] = last.pulled
    /\ ins[last.bb] /= EmptyState
    /\ callgraph = <<MAIN>>

\* the table of the claim: the value of the return slot, by method name
ClaimedTable ==
    [strlen |-> from_types({"int"}),
     dechex |-> from_types({"string"}),
     print |-> from_literal("1"),
     is_array |-> from_types({"bool"}),
     is_object |-> from_types({"bool"}),
     trigger_error |-> from_types({"bool"})]

\* C17: Modelled functions.  When a call of a method without
\* implementation has been analysed, then, if the method's name is strlen,
\* dechex, print, is_array, is_object or trigger_error, every analysis was
\* given the assignment of the method's return slot in the block standing
\* for the method, and the slot holds there type int, type string, the
\* literal 1, type bool, type bool and type bool respectively; for any
\* other name the run has failed as unimplemented.
C17_ModelledFunctions ==
    (last.kind = "summary") =>
       LET m == BlockAt(prog, last.bb).callee
           fake == Info(prog, m).fake
           slot == VN(m, RETNAME)
       IN  IF m \in DOMAIN ClaimedTable
           THEN /\ pc /= "failed"
                /\ get_abstract_value(outs[fake], slot) = ClaimedTable[m]
                /\ \A a \in Range(Analyses) : \E k \in DOMAIN trace :
                      trace[k] = Call("assign_scalar", a, fake, slot,
                                      ClaimedTable[m].lit)
           ELSE pc = "failed" /\ fail = "TODO"

\* C17 witness: the call $n = dechex ($a) has been analysed and the return
\* slot of dechex holds type string in the block standing for the method
C17_Witness ==
    /\ last.kind = "summary"
    /\ pc = "analyse"
    /\ BlockAt(prog, last.bb).callee = "dechex"
    /\ get_abstract_value(outs[Info(prog, "dechex").fake], VN("dechex", RETNAME))
          = [lit |-> "BOTTOM", types |-> {"string"}]

\* a worklist pop whose target block is not a method invocation is about
\* to be made
BlockPop ==
    /\ pc = "analyse"
    /\ stack /= <<>>
    /\ Top.cur = <<>>
    /\ Top.wl /= <<>>
    /\ ~IsCall(prog, EdgeAt(prog, Head(Top.wl)).dst)

\* the pull of the block the next pop targets
PopPull ==
    pull_results(Ctx(ins[EdgeAt(prog, Head(Top.wl)).dst]), prog,
                 EdgeAt(prog, Head(Top.wl)).dst,
                 [exec EXCEPT ![Head(Top.wl)] = TRUE], outs)

\* the step leaves what c, computed with debugging off, leaves: the
\* failure, the working state of block bb and the calls other than dump
LeavesAs(c, bb, calls) ==
    /\ fail' = c.fail
    /\ ins'[bb] = c.S
    /\ Protocol(trace') = calls

\* C18: Debug sink.  Whatever the debugging settings of the run, every
\* step that can dump (the analysis of a block, the forward bind of
\* __MAIN__, of a user method or of a summary method, the backward bind and
\* the return to the calling block) leaves what the same step leaves in a
\* run with debugging off: the same failure, the same working state, the
\* same calls on the analyses other than dump, the same executable flags,
\* the same OUT state and the same edges popped from and pushed on the
\* worklist.
C18_DebugObservational ==
    [][/\ BlockPop =>
            LET e == Head(Top.wl)
                bb == EdgeAt(prog, e).dst
                c == analyse_block(PopPull, prog, bb, NoDebug)
            IN  /\ LeavesAs(c, bb, c.tr)
                /\ exec' = [exec EXCEPT ![e] = TRUE]
                /\ ~Failed(c) =>
                      /\ outs' = [outs EXCEPT ![bb] = c.S]
                      /\ Top'.wl = Tail(Top.wl)
                            \o NextEdges(prog, c.S, bb,
                                         FirstPass(exec[e]) \/ c.S /= outs[bb])
       /\ (pc = "init" /\ w < MaxOuter) =>
            LET c == forward_bind(prog, MAIN, 0, EmptyState, <<>>, NoDebug)
            IN  /\ LeavesAs(c, Info(prog, MAIN).entry, c.tr)
                /\ exec' = ResetEdges(exec, prog, MAIN)
                /\ Top'.wl = <<get_entry_edge(prog, MAIN)>>
       /\ (CallPop /\ StaticCall(BlockAt(prog, EdgeAt(prog, Head(Top.wl)).dst))) =>
            LET e == Head(Top.wl)
                bb == EdgeAt(prog, e).dst
                b == BlockAt(prog, bb)
                m == b.callee
            IN  IF has_implementation(prog, m)
                THEN LET c == forward_bind(prog, m, bb, PopPull.S, b.args, NoDebug)
                     IN  /\ LeavesAs(c, Info(prog, m).entry, PopPull.tr \o c.tr)
                         /\ exec' = ResetEdges([exec EXCEPT ![e] = TRUE], prog, m)
                         /\ Top'.wl = <<get_entry_edge(prog, m)>>
                ELSE LET ce == SummaryEntry(prog, m, bb, PopPull.S, b.args, NoDebug)
                         cx == SummaryExit(SummaryFake(ce, prog, m, exec, outs),
                                           prog, m, exec, outs)
                     IN  /\ fail' = cx.fail
                         /\ Protocol(trace') = PopPull.tr \o cx.tr
                         /\ exec' = [exec EXCEPT ![e] = TRUE]
                         /\ ~Failed(cx) =>
                               /\ ins'[Info(prog, m).exit] = cx.S
                               /\ Top'.wl = <<>>
       /\ Drained =>
            LET f == Top
                c == backward_bind(prog, f.m, f.caller,
                                   ins[Info(prog, f.m).exit], f.lhs, NoDebug)
            IN  /\ LeavesAs(c, Info(prog, f.m).exit,
                            IF f.caller = 0 \/ Failed(c) THEN c.tr
                            ELSE aggregate_results(c, f.caller).tr)
                /\ exec' = exec
                /\ (~Failed(c) /\ f.caller /= 0) =>
                      /\ outs' = [outs EXCEPT ![f.caller] = c.S]
                      /\ Top'.wl = stack[Len(stack) - 1].wl
                            \o NextEdges(prog, c.S, f.caller,
                                         FirstPass(stack[Len(stack) - 1].was)
                                           \/ c.S /= outs[f.caller])]_vars

\* C18 witness: with debugging enabled for the pass and for constant
\* propagation, a block has been analysed, constant propagation has been
\* asked to dump it, its OUT holds a literal and an edge has been pushed
C18_Witness ==
    /\ debug = {"wpa", "ccp"}
    /\ pc = "analyse"
    /\ last.kind = "block"
    /\ last.pushed /= <<>>
    /\ outs[last.bb].lit /= <<>>
    /\ \E k \in DOMAIN trace :
          trace[k] = Call("dump", "ccp", last.bb, <<>>, "After analysis")
    /\ \A k \in DOMAIN trace : trace[k].op = "dump" => trace[k].wpa = "ccp"

\* C19 (as claimed): Index resolution, for an assignment to $x[...] where
\* $x holds arrays only.  When the index has a known value, no target is
\* named by the wildcard; when a target is named by the wildcard (the index
\* is of unknown value), the kill has POSSIBLE certainty and no kill_value
\* is issued.
C19_IndexResolution ==
    (pc = "applied" /\ SCALAR \notin Get(last.pulled.pts, VN(MSN, "x"), {})) =>
       LET wild == {k \in DOMAIN last.res.lhss : last.res.lhss[k][2] = UNKNOWN}
       IN  /\ Get(last.pulled.lit, VN(MSN, "i"), "TOP") /= "BOTTOM" => wild = {}
           /\ wild /= {} =>
                 /\ last.res.cert = "POSSIBLE"
                 /\ \A k \in DOMAIN trace : ~IsKill(trace[k])

\* activation j is nested in activation i of the same method, entered
\* from the same call block, and both began with the same executable
\* flags and the same IN and OUT states: what led from the one to the other
\* repeats, the analysis being a function of that state
Repeats(i, j) ==
    /\ i < j
    /\ stack[i].m = stack[j].m
    /\ stack[i].caller = stack[j].caller
    /\ stack[i].start /= <<>>
    /\ stack[i].start = stack[j].start

\* C20 (as claimed): Recursion.  The analysis of the entry method returns
\* after finitely many nested activations of analyse_function: no
\* activation is nested in an activation of the same method that began, at
\* the same call block, in the same analysis state.
C20_RecursionTerminates ==
    \A i, j \in DOMAIN stack : ~Repeats(i, j)

\* C21: No partial output.  Until the outer loop of run () has ended and
\* the final walk over the call graph has run, no method's statement body
\* has been replaced and strip () has not run; in particular neither has
\* happened when run () has failed.
C21_NoPartialOutput ==
    (pc /= "done") => (output.replaced = {} /\ ~output.stripped)

\* C21 witness: run () has failed in its tenth pass, after the methods of
\* nine earlier passes were analysed, optimised and summarised, and no
\* body has been replaced
C21_Witness ==
    /\ pc = "failed"
    /\ fail = "TODO"
    /\ w = LastPass
    /\ Len(callgraph) >= 2
    /\ UserMethods(prog, callgraph) /= <<>>
    /\ output.replaced = {}
    /\ ~output.stripped

\* the test that ends a pass of run ()'s outer loop is being made
TestStep == pc = "optimise" /\ pc' /= "optimise"

\* the saved analyses of the kind of analysis a
SavedOfKind(a) == {x \in Range(old_analyses) : x.name = a}

\* C22: Whole-program convergence test.  The test of a pass answers true
\* exactly when analyses were saved and every registered analysis equals
\* the saved analysis of its kind, found at the same place of the
\* registration order.  What is saved changes only when a pass begins, and
\* is then exactly the registered analyses as the pass before left them:
\* empty in the first pass, one analysis per kind afterwards, untouched by
\* the optimisation of the methods that lies between.
C22_ConvergenceTest ==
    [][/\ TestStep =>
            /\ (pc' = "annotate") <=>
                  /\ old_analyses /= <<>>
                  /\ \A i \in DOMAIN analyses :
                        /\ old_analyses[i].name = analyses[i].name
                        /\ SavedOfKind(analyses[i].name) = {analyses[i]}
            /\ (w = 0) <=> (old_analyses = <<>>)
            /\ w > 0 => Len(old_analyses) = Len(Analyses)
       /\ (old_analyses' /= old_analyses) =>
            pc = "init" /\ old_analyses' = analyses
       /\ (pc = "optimise") => analyses' = analyses
      ]_vars

\* C22 witness: the test of the second pass found the analyses different
\* from the saved ones of the first pass, and the test of the third pass
\* found them equal to the saved ones of the second
C22_Witness ==
    /\ pc = "annotate"
    /\ w = 2
    /\ old_analyses /= <<>>
    /\ analyses = old_analyses

\* the number of the categories scalar, array and object the types fall into
Categories(types) ==
    Cardinality({k \in {1, 2, 3} :
                   <<get_scalar_types(types), get_array_types(types),
                     get_object_types(types)>>[k] /= {}})

\* the types type inference held for the value of the source $y when the
\* last primitive began
SourceTypes == Get(last.pulled.typ, VN(MSN, "y"), {})

\* an analysis was handed a copied value by the last primitive
CopyDispatched == \E k \in DOMAIN trace : trace[k].op = "assign_scalar"

\* C23 (as claimed): Category assertion.  When assign_by_copy has been
\* applied, nothing being an alias of anything, to a source value whose
\* types fall into more than one of the categories scalar, array and
\* object, the run has failed, and unless it failed as unimplemented before
\* any value was copied it failed on the category assertion; and the
\* assertion never fails on a value of exactly one category.
C23_CategoryAssertion ==
    (last.kind = "assign_by_copy" /\ last.pulled.refs = {}) =>
       /\ Categories(SourceTypes) >= 2 =>
             /\ pc = "failed"
             /\ fail = "ASSERT" \/ ~CopyDispatched
       /\ fail = "ASSERT" => Categories(SourceTypes) /= 1

\* the operations of the calls of a trace, in order
Ops(tr) == [k \in DOMAIN tr |-> tr[k].op]

\* C24: Per-function optimisation loop.  Every step of the walk that
\* optimises is for a method with a user implementation whose analysed
\* callees with a user implementation were optimised before it.  The first
\* step for a method is merge_contexts, apply_results and generate_summary,
\* once; every later step is a round, of which there are at most MaxInner:
\* clone, the local pass runner once, then the interprocedural pass runner
\* once, generate_summary and the comparison with the clone.  The rounds of
\* a method end with the first round whose graph equals the clone, or with
\* the last round allowed.
C24_OptimisationLoop ==
    [][(pc = "optimise" /\ opt' /= opt) =>
         LET ms == UserMethods(prog, callgraph)
             m == ms[opt.mi]
         IN  /\ Info(prog, m).impl
             /\ \A k \in DOMAIN ms :
                   (ms[k] \in CallsOf(prog, m) /\ ms[k] /= m) => k < opt.mi
             /\ \A k \in DOMAIN trace' : trace'[k].name = m
             /\ IF opt.i = -1
                THEN /\ Ops(trace') = <<"merge_contexts", "apply_results",
                                        "generate_summary">>
                     /\ opt' = [mi |-> opt.mi, i |-> 0]
                ELSE /\ opt.i < MaxInner
                     /\ Ops(trace') = <<"clone", "run_local_optimization_passes",
                                        "run_ipa_passes", "generate_summary",
                                        "equals">>
                     /\ opt' = IF trace'[5].arg = "true" \/ opt.i = MaxInner - 1
                               THEN [mi |-> opt.mi + 1, i |-> -1]
                               ELSE [mi |-> opt.mi, i |-> opt.i + 1]]_vars

\* C24 witness: the rounds of a callee were ended by the bound, the tenth
\* round having changed the graph again, and the walk has gone on to its
\* caller
C24_Witness ==
    /\ pc = "optimise"
    /\ opt = [mi |-> 2, i |-> -1]
    /\ Len(UserMethods(prog, callgraph)) >= 2
    /\ Ops(trace) = <<"clone", "run_local_optimization_passes",
                      "run_ipa_passes", "generate_summary", "equals">>
    /\ trace[5].arg = "false"

\* C25: Worklist push rule.  When an iteration of the worklist loop ends
\* (at once for a block that invokes nothing, at the return of the callee
\* for a block that invokes a method), edges were added to the end of the
\* worklist if and only if the target is not an Exit block and the popped
\* edge was not executable before the pop or the OUT state some analysis
\* keeps for the target changed.  What is added are successor edges of the
\* target: the single one of a block that is not a branch, those
\* get_branch_successors gives for a branch.  The flag a pop of an invoking
\* block starts from is the edge's flag before the pop.
C25_PushRule ==
    [][/\ (pc' = "analyse" /\ last'.kind \in {"block", "return"}) =>
           LET n == Len(stack)
               ret == last'.kind = "return"
               act == IF ret THEN n - 1 ELSE n
               bb == IF ret THEN Top.caller ELSE EdgeAt(prog, Head(Top.wl)).dst
               fresh == IF ret THEN ~stack[act].was ELSE ~exec[Head(Top.wl)]
               before == IF ret THEN stack[act].wl ELSE Tail(Top.wl)
               after == stack'[act].wl
               added == SubSeq(after, Len(before) + 1, Len(after))
               moved == \E a \in Range(Analyses) :
                           Component(a, outs'[bb]) /= Component(a, outs[bb])
               kind == BlockAt(prog, bb).kind
           IN  /\ SubSeq(after, 1, Len(before)) = before
               /\ (added /= <<>>) <=> ((fresh \/ moved) /\ kind /= "Exit")
               /\ Range(added) \subseteq Range(SuccEdges(prog, bb))
               /\ (added /= <<>> /\ kind /= "Branch") =>
                     added = <<SuccEdges(prog, bb)[1]>>
               /\ (added /= <<>> /\ kind = "Branch") =>
                     added = get_branch_successors(prog, outs'[bb], bb)
       /\ (pc' = "analyse" /\ last'.kind \in {"call", "summary"}) =>
           stack'[Len(stack)].was = exec[Head(Top.wl)]
      ]_vars

\* C25 witness: an edge that was executable already was popped, no OUT
\* state of its target, which is not an Exit block, changed, and nothing
\* was pushed
C25_Witness ==
    /\ pc = "analyse"
    /\ last.kind = "block"
    /\ last.was
    /\ ~last.changed
    /\ last.pushed = <<>>
    /\ BlockAt(prog, last.bb).kind /= "Exit"
    /\ SuccEdges(prog, last.bb) /= <<>>

\* the activations of analyse_function on the stack
Activations == {i \in DOMAIN stack : Info(prog, stack[i].m).impl}

\* C26 (as claimed): Edge executability.  While run () analyses, for every
\* activation of analyse_function, an edge of its method's graph is
\* executable if and only if the activation's loop has popped it: none is
\* when the activation begins, and each becomes so with its pop.
C26_EdgeExecutability ==
    (pc = "analyse") =>
       \A i \in Activations : \A e \in get_all_edges(prog, stack[i].m) :
          exec[e] <=> (e \in stack[i].popped)

\* most changes of a block's OUT state within one activation
ChangesPerBlock == 2

\* the edges the loop of an activation has popped: the entry edge and the
\* edges pushed, less those still waiting
Pops(f) == 1 + f.np - Len(f.wl)

\* the pushes of the edges of m from the i-th on, if every pop into an
\* edge's source pushes it once for each first pass of a predecessor edge
\* and once for each change of the source's OUT state
RECURSIVE PushBound(_, _, _)
PushBound(p, m, i) ==
    IF i > Len(Info(p, m).edges) THEN 0
    ELSE Len(PredEdges(p, Info(p, m).edges[i].src)) + ChangesPerBlock
           + PushBound(p, m, i + 1)

\* C27: Worklist termination.  In an activation of analyse_function for a
\* method without call sites every step of the worklist loop pops one
\* edge, and the number of edges popped never exceeds the entry edge plus
\* the pushes that the first passes and the changes of the OUT states
\* allow, so the worklist drains; the step that follows the draining runs
\* every analysis's backward_bind hook once and ends the activation, and
\* no other step of the activation runs it.
C27_WorklistTermination ==
    [][(pc = "analyse" /\ stack /= <<>> /\ Info(prog, Top.m).impl
          /\ CallsOf(prog, Top.m) = {}) =>
         LET n == Len(stack)
             bw == {k \in DOMAIN trace' : trace'[k].op = "backward_bind"}
         IN  /\ Pops(Top) <= 1 + PushBound(prog, Top.m, 1)
             /\ IF Top.wl /= <<>>
                THEN /\ Len(stack') = n
                     /\ Pops(stack'[n]) = Pops(Top) + 1
                     /\ bw = {}
                ELSE /\ pc' = "failed" \/ Len(stack') = n - 1
                     /\ pc' /= "failed" =>
                           \A a \in Range(Analyses) :
                              Cardinality(Hooks(trace', "backward_bind", a)) = 1
      ]_vars

\* C27 witness: the activation of the entry method of a script with a loop
\* and no call site has ended with backward_bind, every edge of the graph
\* having been popped
C27_Witness ==
    /\ prog.name = "loop"
    /\ pc = "optimise"
    /\ stack = <<>>
    /\ last.kind = "return"
    /\ Cardinality({e \in get_all_edges(prog, MAIN) : exec[e]})
          = Len(Info(prog, MAIN).edges)
    /\ \A a \in Range(Analyses) :
          Cardinality(Hooks(trace, "backward_bind", a)) = 1

\* C28 (as claimed): Exit analysed before backward bind.  When the
\* worklist of an activation of analyse_function has drained and
\* backward_bind is about to run, the activation's loop has popped an edge
\* into the method's exit block and that edge is executable: the exit
\* block was analysed in this activation.
C28_ExitAnalysed ==
    (Drained /\ Info(prog, Top.m).impl) =>
       \E e \in Range(PredEdges(prog, Info(prog, Top.m).exit)) :
          exec[e] /\ e \in Top.popped

\* the last primitive resolved a path whose base is the path of $x, and $x
\* held a bare scalar
ScalarBase ==
    /\ pc = "applied"
    /\ ~is_ST_path(last.e.lhs)
    /\ SCALAR \in Get(last.pulled.pts, VN(MSN, "x"), {})

\* a diagnosable edge case was recorded by the last step
EdgeCaseRecorded == \E k \in DOMAIN trace : trace[k].op = "edge_case"

\* C29 (as claimed): Scalar-base materialisation.  When a primitive has
\* resolved a path whose base is the path of $x and $x held a bare scalar,
\* every analysis was given the assignment of an empty array named after
\* the block's id at $x, a target index node of the primitive lies in the
\* storage of that name, and, the scalar being non-empty, an edge case was
\* recorded.
C29_ScalarBase ==
    ScalarBase =>
       /\ \A a \in Range(Analyses) : \E k \in DOMAIN trace :
             trace[k] = Call("assign_empty_array", a, MemBlock, VN(MSN, "x"),
                             ToString(MemBlock))
       /\ \E k \in DOMAIN last.res.lhss :
             last.res.lhss[k][1] = ToString(MemBlock)
       /\ Get(last.pulled.lit, VN(MSN, "x"), "TOP") \notin {"TOP", "", "0"} =>
             EdgeCaseRecorded

\* the positions of the calls of tr that satisfy ops and are for block bb
At(tr, ops, bb) == {k \in DOMAIN tr : tr[k].op \in ops /\ tr[k].bb = bb}

\* every position of A lies before every position of B, neither being empty
Before(A, B) == A /= {} /\ B /= {} /\ \A i \in A : \A j \in B : i < j

\* the steps of analyse_summary for method m, as the claim orders them
SummaryOrder(tr, m) ==
    LET info == Info(prog, m)
        fb == At(tr, {"forward_bind"}, info.entry)
        ae == At(tr, {"aggregate_results"}, info.entry)
        pf == At(tr, PullOps, info.fake)
        am == At(tr, NewValueOps, info.fake)
        af == At(tr, {"aggregate_results"}, info.fake)
        px == At(tr, PullOps, info.exit)
    IN  /\ Before(fb, ae) /\ Before(ae, pf) /\ Before(pf, am)
        /\ Before(am, af) /\ Before(af, px)

\* C30 (as claimed): Summary-method analysis.  A step that analyses a call
\* of a modelled method makes, in this order, the forward bind at the
\* entry block, the aggregation of the entry block, the pull into the
\* modelling block, the assignment of the modelling table, the aggregation
\* of the modelling block and the pull into the exit block, and the step
\* that follows makes the backward bind; after the pull into the exit
\* block the return slot holds in the exit block's IN state the value the
\* modelling block assigned.
C30_SummaryAnalysis ==
    [][/\ (pc' = "analyse" /\ last'.kind = "summary") =>
            LET m == BlockAt(prog, last'.bb).callee
                slot == VN(m, RETNAME)
            IN  /\ SummaryOrder(trace', m)
                /\ get_abstract_value(ins'[Info(prog, m).exit], slot)
                      = get_abstract_value(outs'[Info(prog, m).fake], slot)
       /\ (pc = "analyse" /\ last.kind = "summary") =>
            (pc' = "failed" \/ CallsOfOps(trace', {"backward_bind"}) /= {})
      ]_vars

\* the nodes the aliasing state S reports as references of n when asked
\* with certainty cert: a DEFINITE question is answered with the definite
\* references, a POSSIBLE one with all of them
ReportedRefs(S, n, cert) ==
    {r.to : r \in {x \in S.refs : x.from = n
                       /\ (x.cert = "DEFINITE" \/ cert = "POSSIBLE")}}

\* C31: Referenced-names expansion.  The list get_all_referenced_names
\* returns has no name twice, and its names are exactly the index nodes the
\* path resolves to together with the nodes the aliasing analysis reports
\* as references of one of them at the certainty asked for.
C31_ReferencedNames ==
    (pc = "named") =>
       LET names == last.res.names
           lhss == Range(last.res.lhss)
       IN  /\ \A i, j \in DOMAIN names : names[i] = names[j] => i = j
           /\ Range(names) =
                 lhss \cup UNION {ReportedRefs(ins[MemBlock], n, last.res.cert)
                                    : n \in lhss}

\* C31 witness: the path $x[0] with $x one of two arrays resolves to two
\* index nodes that both have $y for a reference, one definitely and one
\* possibly; asked for POSSIBLE references the list holds $y once
C31_Witness ==
    /\ pc = "named"
    /\ last.res.cert = "POSSIBLE"
    /\ Range(last.res.lhss) = {VN("A", "0"), VN("B", "0")}
    /\ VN(MSN, "y") \in ReportedRefs(ins[MemBlock], VN("A", "0"), "POSSIBLE")
    /\ VN(MSN, "y") \in ReportedRefs(ins[MemBlock], VN("B", "0"), "POSSIBLE")
    /\ VN(MSN, "y") \notin ReportedRefs(ins[MemBlock], VN("B", "0"), "DEFINITE")
    /\ Len(last.res.names) = 3

====
